---- MODULE Spec2Model ----
(***************************************************************************)
(* State-machine model of the sequential task queue                        *)
(* (crates/services/src/services/sequential_queue.rs, the task routes of   *)
(* crates/server/src/routes/tasks.rs) and of the workspace manager         *)
(* (crates/services/src/services/workspace_manager.rs).                    *)
(*                                                                         *)
(* The task store (db::models::task) is not part of the sources at hand;   *)
(* its queries are modelled from the specification and are marked so.      *)
(***************************************************************************)
EXTENDS Integers, Sequences, FiniteSets, TLC

\* ------------------------------------------------------------------ bounds
\* Largest queue position that enqueue may hand out and that a request may ask for.
MaxPos == 3
\* Largest number of repositories a build is called with.
MaxRepos == 3

\* ------------------------------------------------------------- value types
\* Option<T>: None is the empty sequence, Some(x) the one-element sequence.
None == << >>
Some(x) == << x >>

Tasks == {"T1", "T2", "T3"}
\* The tasks in the order they were created.
TaskOrder == << "T1", "T2", "T3" >>
\* An id of no stored task (find_by_id returns None for it).
NoSuchTask == "T9"
TaskIds == Tasks \cup {NoSuchTask}
Projects == {"P1", "P2"}

\* TaskStatus
TaskStatus == {"Todo", "InProgress", "InReview", "Done", "Cancelled"}
\* ExecutionMode
ExecutionMode == {"Parallel", "Sequential"}

\* Positions a request may carry (an i32: negative, zero, in range, above range).
PosInputs == {-1} \cup (0 .. MaxPos)
\* Positions the scheduling view's requests carry.
PosInRange == 1 .. MaxPos

VARIABLES
    project,          \* Task.project_id, fixed when the task is created
    status,           \* Task.status
    execution_mode,   \* Task.execution_mode
    queue_position,   \* Task.queue_position : Option<i32>
    last,             \* the last service call: its arguments, its result, the positions before it
    fs,               \* the filesystem: the node at every path that exists
    build,            \* the create_workspace call in flight: its arguments, locals and result
    peer,             \* a second create_workspace call in flight, concurrent with the first
    call              \* the other calls in flight (a WorkspaceManager call, or the reorder
                      \* calls of the queue service): their arguments, locals and results

vars == << project, status, execution_mode, queue_position, last, fs, build, peer, call >>
qvars == << project, status, execution_mode, queue_position, last >>
wvars == << fs, build, peer, call >>

NoCall == [op |-> "none", task |-> NoSuchTask, project |-> "P1", pos |-> 0,
           result |-> None, before |-> << >>]

\* ------------------------------------------------------------- task store
\* Sequential-mode tasks of a project.
SeqTasks(pid) ==
    {t \in Tasks : project[t] = pid /\ execution_mode[t] = "Sequential"}

\* Ascending order of the store on Option<i32>: NULL sorts before every value.
PosLeq(a, b) == a = None \/ (b /= None /\ a[1] <= b[1])

\* Task::find_sequential_queue_for_project: every ordering of the project's
\* sequential tasks that ascends by position (ties in any order).
find_sequential_queue_for_project(pid) ==
    LET S == SeqTasks(pid)
        n == Cardinality(S)
    IN {q \in [1 .. n -> S] :
           /\ \A i, j \in 1 .. n : i /= j => q[i] /= q[j]
           /\ \A i, j \in 1 .. n : i < j => PosLeq(queue_position[q[i]], queue_position[q[j]])}

\* Task::has_running_sequential_task
has_running_sequential_task(pid) ==
    \E t \in SeqTasks(pid) : status[t] = "InProgress"

\* Task::get_next_in_queue: the first Todo task in queue order, for every
\* order the store may produce; {None} when the queue holds no Todo task.
get_next_in_queue(pid) ==
    IF \A t \in SeqTasks(pid) : status[t] /= "Todo"
    THEN {None}
    ELSE {Some(q[CHOOSE i \in DOMAIN q :
                    /\ status[q[i]] = "Todo"
                    /\ \A j \in DOMAIN q : j < i => status[q[j]] /= "Todo"]) :
             q \in find_sequential_queue_for_project(pid)}

\* MAX(queue_position) over the project's sequential tasks, 0 when there is none.
MaxQueuePosition(pid) ==
    LET P == {queue_position[t][1] : t \in {u \in SeqTasks(pid) : queue_position[u] /= None}}
    IN IF P = {} THEN 0 ELSE CHOOSE m \in P : \A x \in P : x <= m

\* Task::add_to_queue: the task becomes sequential at one past the maximum.
add_to_queue(em, qp, t, pid) ==
    << [em EXCEPT ![t] = "Sequential"],
       [qp EXCEPT ![t] = Some(MaxQueuePosition(pid) + 1)] >>

\* Task::remove_from_queue: clears the position; the mode is left to the caller.
remove_from_queue(em, qp, t) ==
    << em, [qp EXCEPT ![t] = None] >>

\* Task::update_queue_position
update_queue_position(qp, t, p) == [qp EXCEPT ![t] = p]

\* ------------------------------------------------- SequentialQueueService
\* Variant of enqueue that appends by the number of queued tasks, not by the
\* largest position.
EnqueueByCount(t) ==
    /\ MaxQueuePosition(project[t]) + 1 <= MaxPos
    /\ execution_mode' = [execution_mode EXCEPT ![t] = "Sequential"]
    /\ queue_position' =
           [queue_position EXCEPT ![t] = Some(Cardinality(SeqTasks(project[t]) \ {t}) + 1)]
    /\ UNCHANGED << project, status >>

\* enqueue
Enqueue(t) ==
    /\ MaxQueuePosition(project[t]) + 1 <= MaxPos
    /\ LET r == add_to_queue(execution_mode, queue_position, t, project[t])
       IN /\ execution_mode' = r[1]
          /\ queue_position' = r[2]
    /\ UNCHANGED << project, status >>

\* dequeue
Dequeue(t) ==
    /\ LET r == remove_from_queue(execution_mode, queue_position, t)
       IN /\ execution_mode' = r[1]
          /\ queue_position' = r[2]
    /\ UNCHANGED << project, status >>

\* update_position
UpdatePosition(t, p) ==
    /\ queue_position' = update_queue_position(queue_position, t, Some(p))
    /\ UNCHANGED << project, status, execution_mode >>

\* reorder: the insertion index, new_position as usize clamped to the queue length
\* (a negative i32 cast to usize is above every length).
InsertPos(new_position, len) ==
    IF new_position < 0 \/ new_position > len THEN len ELSE new_position

\* reorder: the position written to the idx-th (0-based) task of the remaining queue.
ShiftedPos(idx, insert_pos) ==
    IF idx < insert_pos THEN idx + 1 ELSE idx + 2

\* reorder: the positions after the writes, for a queue as the store returned it.
ReorderWrites(qp, q, task_id, new_position) ==
    LET queue == SelectSeq(q, LAMBDA x : x /= task_id)
        insert_pos == InsertPos(new_position, Len(queue))
        shifted == [t \in Tasks |->
                      IF \E i \in 1 .. Len(queue) : queue[i] = t
                      THEN Some(ShiftedPos((CHOOSE i \in 1 .. Len(queue) : queue[i] = t) - 1,
                                           insert_pos))
                      ELSE qp[t]]
    IN update_queue_position(shifted, task_id, Some(new_position))

\* Variant of reorder that checks the mode after the writes.
reorder_checking_mode_last(pid, task_id, new_position) ==
    IF task_id \notin Tasks
    THEN {<< "TaskNotFound", queue_position >>}
    ELSE {<< IF execution_mode[task_id] /= "Sequential" THEN "NotSequentialMode" ELSE "Ok",
             ReorderWrites(queue_position, q, task_id, new_position) >> :
             q \in find_sequential_queue_for_project(pid)}

\* Variant of reorder without the "No change needed" return.
reorder_always_writing(pid, task_id, new_position) ==
    IF task_id \notin Tasks
    THEN {<< "TaskNotFound", queue_position >>}
    ELSE IF execution_mode[task_id] /= "Sequential"
    THEN {<< "NotSequentialMode", queue_position >>}
    ELSE {<< "Ok", ReorderWrites(queue_position, q, task_id, new_position) >> :
             q \in find_sequential_queue_for_project(pid)}

\* reorder: the result and the positions it leaves, one pair per queue order.
reorder(pid, task_id, new_position) ==
    IF task_id \notin Tasks
    THEN {<< "TaskNotFound", queue_position >>}
    ELSE IF execution_mode[task_id] /= "Sequential"
    THEN {<< "NotSequentialMode", queue_position >>}
    ELSE IF (IF queue_position[task_id] = None THEN 0 ELSE queue_position[task_id][1])
            = new_position
    THEN {<< "Ok", queue_position >>}
    ELSE {<< "Ok", ReorderWrites(queue_position, q, task_id, new_position) >> :
             q \in find_sequential_queue_for_project(pid)}

Reorder(pid, task_id, new_position) ==
    /\ \E r \in reorder(pid, task_id, new_position) : queue_position' = r[2]
    /\ UNCHANGED << project, status, execution_mode >>

\* The record of a reorder call: arguments, result, and the positions before it.
ReorderCall(pid, task_id, new_position) ==
    [NoCall EXCEPT !.op = "reorder", !.task = task_id, !.project = pid,
                   !.pos = new_position,
                   !.result = Some((CHOOSE r \in reorder(pid, task_id, new_position) : TRUE)[1]),
                   !.before = queue_position]

\* Variant of process_queue_after_completion without the running-task check.
process_queue_ignoring_running(completed_task) ==
    IF execution_mode[completed_task] /= "Sequential"
    THEN {None}
    ELSE IF status[completed_task] \notin {"Done", "Cancelled", "InReview"}
    THEN {None}
    ELSE get_next_in_queue(project[completed_task])

\* Variant of process_queue_after_completion that takes only Done and Cancelled
\* as completion.
process_queue_without_in_review(completed_task) ==
    IF execution_mode[completed_task] /= "Sequential"
    THEN {None}
    ELSE IF status[completed_task] \notin {"Done", "Cancelled"}
    THEN {None}
    ELSE IF has_running_sequential_task(project[completed_task])
    THEN {None}
    ELSE get_next_in_queue(project[completed_task])

\* Variant of process_queue_after_completion without the status check.
process_queue_any_status(completed_task) ==
    IF execution_mode[completed_task] /= "Sequential"
    THEN {None}
    ELSE IF has_running_sequential_task(project[completed_task])
    THEN {None}
    ELSE get_next_in_queue(project[completed_task])

\* Variant of process_queue_after_completion that holds the task the call before
\* returned as reserved and passes over it.
process_queue_reserving(completed_task) ==
    IF execution_mode[completed_task] /= "Sequential"
    THEN {None}
    ELSE IF status[completed_task] \notin {"Done", "Cancelled", "InReview"}
    THEN {None}
    ELSE IF has_running_sequential_task(project[completed_task])
    THEN {None}
    ELSE LET reserved == IF last.op = "advance" /\ last.result /= None
                         THEN {last.result[1]} ELSE {}
             free == {t \in SeqTasks(project[completed_task]) : status[t] = "Todo"}
                         \ reserved
         IN IF free = {}
            THEN {None}
            ELSE {Some(q[CHOOSE i \in DOMAIN q :
                            /\ q[i] \in free
                            /\ \A j \in DOMAIN q : j < i => q[j] \notin free]) :
                     q \in find_sequential_queue_for_project(project[completed_task])}

\* process_queue_after_completion (advance): the task it may return.
process_queue_after_completion(completed_task) ==
    IF execution_mode[completed_task] /= "Sequential"
    THEN {None}
    ELSE IF status[completed_task] \notin {"Done", "Cancelled", "InReview"}
    THEN {None}
    ELSE IF has_running_sequential_task(project[completed_task])
    THEN {None}
    ELSE get_next_in_queue(project[completed_task])

\* Variant of advance that marks the task it returns as started.
AdvanceStarting(t) ==
    /\ \E r \in process_queue_after_completion(t) :
          /\ last' = [NoCall EXCEPT !.op = "advance", !.task = t, !.result = r]
          /\ status' = IF r = None THEN status ELSE [status EXCEPT ![r[1]] = "InProgress"]
    /\ UNCHANGED << project, execution_mode, queue_position >>

\* advance is called with the stored row of the task; it only reads the store.
Advance(t) ==
    /\ \E r \in process_queue_after_completion(t) :
          last' = [NoCall EXCEPT !.op = "advance", !.task = t, !.result = r]
    /\ UNCHANGED << project, status, execution_mode, queue_position >>

\* ------------------------------------------------------------ task routes
\* update_task: the mode and positions after "Handle execution mode changes".
update_task_mode(t, new_execution_mode) ==
    IF new_execution_mode = None
    THEN << execution_mode, queue_position >>
    ELSE IF execution_mode[t] = "Parallel" /\ new_execution_mode[1] = "Sequential"
    THEN add_to_queue(execution_mode, queue_position, t, project[t])
    ELSE IF execution_mode[t] = "Sequential" /\ new_execution_mode[1] = "Parallel"
    THEN remove_from_queue(execution_mode, queue_position, t)
    ELSE << [execution_mode EXCEPT ![t] = new_execution_mode[1]], queue_position >>

\* update_task with payload {status, execution_mode}, either possibly absent.
UpdateTask(t, new_status, new_execution_mode) ==
    /\ \/ new_execution_mode /= Some("Sequential")
       \/ execution_mode[t] /= "Parallel"
       \/ MaxQueuePosition(project[t]) + 1 <= MaxPos
    /\ status' = [status EXCEPT ![t] = IF new_status = None THEN @ ELSE new_status[1]]
    /\ LET r == update_task_mode(t, new_execution_mode)
       IN /\ execution_mode' = r[1]
          /\ queue_position' = r[2]
    /\ UNCHANGED project

\* reorder_queue (POST /reorder-queue)
ReorderQueue(t, new_position) ==
    /\ execution_mode[t] = "Sequential"
    /\ queue_position' = update_queue_position(queue_position, t, Some(new_position))
    /\ UNCHANGED << project, status, execution_mode >>

\* ------------------------------------------------------------- filesystem
\* A name is a sequence of characters, a path a sequence of names.
Str(c) == << c >>
Join(dir, name) == Append(dir, name)
Parent(p) == SubSeq(p, 1, Len(p) - 1)
FileName(p) == p[Len(p)]

\* Repo {name, path}: a repository is named after its directory.
RepoA == [name |-> Str("A"), path |-> << Str("r"), Str("A") >>]
RepoB == [name |-> Str("B"), path |-> << Str("r"), Str("B") >>]
RepoC == [name |-> Str("A"), path |-> << Str("s"), Str("A") >>]
Repos == {RepoA, RepoB, RepoC}

\* Branch names a workspace is built for.
Branches == {Str("x"), << "f", "/", "x" >>}

\* The workspace base directory and the shared directory of the workspace.
BaseDir == << Str("w") >>
WorkspaceDir == Join(BaseDir, Str("1"))

\* Nodes.
Dir == [kind |-> "dir", target |-> << >>]
File == [kind |-> "file", target |-> << >>]
\* A working tree: a directory holding a .git file.
Worktree == [kind |-> "worktree", target |-> << >>]
Symlink(to) == [kind |-> "symlink", target |-> to]

IsPrefix(p, q) == Len(p) <= Len(q) /\ SubSeq(q, 1, Len(p)) = p
Children(f, p) == {q \in DOMAIN f : Len(q) = Len(p) + 1 /\ IsPrefix(p, q)}

\* Path::is_symlink (does not follow links)
is_symlink(f, p) == p \in DOMAIN f /\ f[p].kind = "symlink"
\* Path::exists (follows links: false for a dangling link)
exists(f, p) ==
    /\ p \in DOMAIN f
    /\ f[p].kind = "symlink" => f[p].target \in DOMAIN f
\* Path::is_dir (follows links)
is_dir(f, p) ==
    /\ exists(f, p)
    /\ LET n == IF f[p].kind = "symlink" THEN f[f[p].target] ELSE f[p]
       IN n.kind \in {"dir", "worktree"}

\* The filesystem with node n at path p.
Put(f, p, n) == [q \in DOMAIN f \cup {p} |-> IF q = p THEN n ELSE f[q]]
\* The filesystem without the entry p itself.
Unlink(f, p) == [q \in DOMAIN f \ {p} |-> f[q]]
\* The filesystem without p and everything below it.
RemoveTree(f, p) == [q \in {r \in DOMAIN f : ~IsPrefix(p, r)} |-> f[q]]

\* tokio::fs::create_dir_all: the results it may have, << ok, filesystem >>.
create_dir_all(f, p) ==
    IF p \in DOMAIN f
    THEN IF is_dir(f, p) THEN {<< TRUE, f >>} ELSE {<< FALSE, f >>}
    ELSE {<< TRUE, Put(f, p, Dir) >>, << FALSE, f >>}

\* tokio::fs::remove_dir: removes an empty directory only.
remove_dir(f, p) ==
    IF p \in DOMAIN f /\ f[p].kind = "dir" /\ Children(f, p) = {}
    THEN {<< TRUE, Unlink(f, p) >>, << FALSE, f >>}
    ELSE {<< FALSE, f >>}

\* tokio::fs::remove_file
remove_file(f, p) ==
    IF p \in DOMAIN f /\ f[p].kind \in {"file", "symlink"}
    THEN {<< TRUE, Unlink(f, p) >>, << FALSE, f >>}
    ELSE {<< FALSE, f >>}

\* tokio::fs::remove_dir_all: a directory goes with all below it, a symbolic link
\* goes itself (it is not followed), a file is refused.
remove_dir_all(f, p) ==
    IF p \in DOMAIN f /\ f[p].kind \in {"dir", "worktree"}
    THEN {<< TRUE, RemoveTree(f, p) >>, << FALSE, f >>}
    ELSE IF p \in DOMAIN f /\ f[p].kind = "symlink"
    THEN {<< TRUE, Unlink(f, p) >>, << FALSE, f >>}
    ELSE {<< FALSE, f >>}

\* tokio::fs::symlink(original, link): fails when link exists (even dangling).
symlink(f, original, link) ==
    IF link \notin DOMAIN f /\ is_dir(f, Parent(link))
    THEN {<< TRUE, Put(f, link, Symlink(original)) >>, << FALSE, f >>}
    ELSE {<< FALSE, f >>}

\* ------------------------------------------------- working-tree primitives
\* WorktreeManager::create_worktree: on success a working tree is at the path.
create_worktree(f, worktree_path) ==
    {<< TRUE, Put(RemoveTree(f, worktree_path), worktree_path, Worktree) >>, << FALSE, f >>}

\* WorktreeManager::cleanup_worktree: on success nothing is left at the path.
cleanup_worktree(f, worktree_path) ==
    {<< TRUE, RemoveTree(f, worktree_path) >>, << FALSE, f >>}

\* The filesystem with p and everything below it moved to q.
MoveTree(f, p, q) ==
    LET moved == {r \in DOMAIN f : IsPrefix(p, r)}
        kept == DOMAIN f \ moved
        To(r) == q \o SubSeq(r, Len(p) + 1, Len(r))
    IN [x \in kept \cup {To(r) : r \in moved} |->
           IF x \in kept THEN f[x] ELSE f[CHOOSE r \in moved : To(r) = x]]

\* WorktreeManager::move_worktree: refused when the destination is taken; on
\* success the working tree is at the destination and nothing is left at the origin.
move_worktree(f, old_path, new_path) ==
    IF new_path \in DOMAIN f \/ old_path \notin DOMAIN f
    THEN {<< FALSE, f >>}
    ELSE {<< TRUE, MoveTree(f, old_path, new_path) >>, << FALSE, f >>}

\* WorktreeManager::ensure_worktree_exists: no-op on a working tree that is there,
\* creates it otherwise.
ensure_worktree_exists(f, worktree_path) ==
    IF worktree_path \in DOMAIN f /\ f[worktree_path] = Worktree
    THEN {<< TRUE, f >>}
    ELSE create_worktree(f, worktree_path)

\* WorktreeManager::cleanup_suspected_worktree: on success nothing is left at the path.
cleanup_suspected_worktree(f, path) ==
    {<< TRUE, RemoveTree(f, path) >>, << FALSE, f >>}

\* std::fs::read_dir: the entries of a directory in some order, or a failure;
\* always a failure on what is not a directory.
read_dir(f, p) ==
    LET E == Children(f, p)
        n == Cardinality(E)
    IN IF ~is_dir(f, p)
       THEN {<< FALSE, << >> >>}
       ELSE {<< TRUE, l >> :
                l \in {q \in [1 .. n -> E] : \A i, j \in 1 .. n : i /= j => q[i] /= q[j]}}
                \cup {<< FALSE, << >> >>}

\* -------------------------------------------------------- WorkspaceManager
\* branch_name.replace('/', "-")
Sanitize(branch_name) ==
    [i \in 1 .. Len(branch_name) |-> IF branch_name[i] = "/" THEN "-" ELSE branch_name[i]]

\* unwrap_or_else(|| "repo".to_string())
DefaultRepoName == << "r", "e", "p", "o" >>

\* Variant of compute_worktree_path that keeps the branch name as it is.
compute_worktree_path_unsanitized(repo_path, branch_name) ==
    LET parent == IF repo_path = << >> THEN repo_path ELSE Parent(repo_path)
        repo_name == IF repo_path = << >> THEN DefaultRepoName ELSE FileName(repo_path)
    IN Join(parent, repo_name \o Str("-") \o branch_name)

\* compute_worktree_path: a path without a parent is its own parent, one without
\* a file name is named "repo".
compute_worktree_path(repo_path, branch_name) ==
    LET parent == IF repo_path = << >> THEN repo_path ELSE Parent(repo_path)
        repo_name == IF repo_path = << >> THEN DefaultRepoName ELSE FileName(repo_path)
        sanitized_branch == Sanitize(branch_name)
    IN Join(parent, repo_name \o Str("-") \o sanitized_branch)

\* RepoWorktree
RepoWorktree(repo, worktree_path) ==
    [repo_name |-> repo.name, source_repo_path |-> repo.path, worktree_path |-> worktree_path]

Idle == [pc |-> "idle", workspace_dir |-> << >>, repos |-> << >>, branch_name |-> << >>,
         created_worktrees |-> << >>, i |-> 0, failed |-> << >>, result |-> "none",
         log |-> << >>]

\* One entry of the log of calls: the operation, its path, whether it succeeded.
Call(op, path, ok) == [op |-> op, path |-> path, ok |-> ok]

\* Variant of the error detail that names the first repository of the call.
partial_creation_detail_of_first(repos, i) == repos[1].name

\* PartialCreation(format!("Failed to create worktree for repo '{}': {}", ...)):
\* the repository the detail names, repos[i] being the input that failed.
partial_creation_detail(repos, i) == repos[i].name

\* Variant of the entry of create_workspace without the is_empty check.
BuildStartUnchecked(workspace_dir, repos, branch_name) ==
    /\ build.pc = "idle"
    /\ build.result = "none"
    /\ build' = [Idle EXCEPT !.workspace_dir = workspace_dir, !.repos = repos,
                             !.branch_name = branch_name, !.pc = "mkdir"]
    /\ UNCHANGED fs

\* create_workspace is called: an empty list is refused at once.
BuildStart(workspace_dir, repos, branch_name) ==
    /\ build.pc = "idle"
    /\ build.result = "none"
    /\ build' = [Idle EXCEPT !.workspace_dir = workspace_dir, !.repos = repos,
                             !.branch_name = branch_name,
                             !.pc = IF repos = << >> THEN "done" ELSE "mkdir",
                             !.result = IF repos = << >> THEN "NoRepositories" ELSE "none"]
    /\ UNCHANGED fs

\* create_dir_all(workspace_dir)? for the call b on the disk f: the call and the
\* disk after it, one pair per outcome.
create_shared_dir(b, f) ==
    {<< [b EXCEPT
           !.pc = IF r[1] THEN "create" ELSE "done",
           !.i = 1,
           !.result = IF r[1] THEN "none" ELSE "Io",
           !.log = Append(@, Call("create_dir_all", b.workspace_dir, r[1]))],
        r[2] >> : r \in create_dir_all(f, b.workspace_dir)}

BuildMkdir ==
    /\ build.pc = "mkdir"
    /\ \E s \in create_shared_dir(build, fs) : build' = s[1] /\ fs' = s[2]

\* Variant of the iteration that goes on to the next repository after a failure
\* and rolls back only when the last repository fails.
create_one_worktree_continuing(b, f) ==
    LET input == b.repos[b.i]
        worktree_path == compute_worktree_path(input.path, b.branch_name)
        last_one == b.i = Len(b.repos)
    IN {<< IF r[1]
           THEN [b EXCEPT
                   !.created_worktrees = Append(@, RepoWorktree(input, worktree_path)),
                   !.i = IF last_one THEN 1 ELSE b.i + 1,
                   !.pc = IF last_one THEN "symlink" ELSE "create",
                   !.log = Append(@, Call("create_worktree", worktree_path, TRUE))]
           ELSE [b EXCEPT
                   !.failed = partial_creation_detail(b.repos, b.i),
                   !.i = IF last_one THEN 1 ELSE b.i + 1,
                   !.pc = IF ~last_one THEN "create"
                          ELSE IF b.created_worktrees = << >> THEN "rmdir" ELSE "rollback",
                   !.log = Append(@, Call("create_worktree", worktree_path, FALSE))],
           r[2] >> : r \in create_worktree(f, worktree_path)}

\* Variant of the iteration that links each working tree into the shared
\* directory as soon as it is created.
create_one_worktree_linking(b, f) ==
    LET input == b.repos[b.i]
        worktree_path == compute_worktree_path(input.path, b.branch_name)
        symlink_path == Join(b.workspace_dir, input.name)
    IN UNION {IF r[1]
              THEN {<< [b EXCEPT
                          !.created_worktrees = Append(@, RepoWorktree(input, worktree_path)),
                          !.i = IF b.i = Len(b.repos) THEN 1 ELSE b.i + 1,
                          !.pc = IF b.i = Len(b.repos) THEN "symlink" ELSE "create",
                          !.log = @ \o << Call("create_worktree", worktree_path, TRUE),
                                          Call("symlink", symlink_path, l[1]) >>],
                       l[2] >> : l \in symlink(r[2], worktree_path, symlink_path)}
              ELSE {<< [b EXCEPT
                          !.failed = partial_creation_detail(b.repos, b.i),
                          !.i = 1,
                          !.pc = IF b.created_worktrees = << >> THEN "rmdir" ELSE "rollback",
                          !.log = Append(@, Call("create_worktree", worktree_path, FALSE))],
                       r[2] >>} :
                 r \in create_worktree(f, worktree_path)}

\* One iteration of "for input in repos": create the working tree of repos[i].
create_one_worktree(b, f) ==
    LET input == b.repos[b.i]
        worktree_path == compute_worktree_path(input.path, b.branch_name)
    IN {<< IF r[1]
           THEN [b EXCEPT
                   !.created_worktrees = Append(@, RepoWorktree(input, worktree_path)),
                   !.i = IF b.i = Len(b.repos) THEN 1 ELSE b.i + 1,
                   !.pc = IF b.i = Len(b.repos) THEN "symlink" ELSE "create",
                   !.log = Append(@, Call("create_worktree", worktree_path, TRUE))]
           ELSE [b EXCEPT
                   !.failed = partial_creation_detail(b.repos, b.i),
                   !.i = 1,
                   !.pc = IF b.created_worktrees = << >> THEN "rmdir" ELSE "rollback",
                   !.log = Append(@, Call("create_worktree", worktree_path, FALSE))],
           r[2] >> : r \in create_worktree(f, worktree_path)}

BuildCreate ==
    /\ build.pc = "create"
    /\ \E s \in create_one_worktree(build, fs) : build' = s[1] /\ fs' = s[2]

\* Variant of the rollback that leaves the first created working tree alone.
rollback_targets_skipping_first(created_worktrees) ==
    IF Len(created_worktrees) > 1 THEN Tail(created_worktrees) ELSE created_worktrees

\* cleanup_created_worktrees: the working trees the rollback cleans up, in order.
rollback_targets(created_worktrees) == created_worktrees

\* One iteration of cleanup_created_worktrees; a failure is logged and passed over.
rollback_one_worktree(b, f) ==
    LET targets == rollback_targets(b.created_worktrees)
        worktree == targets[b.i]
    IN {<< [b EXCEPT
              !.i = IF b.i = Len(targets) THEN 1 ELSE b.i + 1,
              !.pc = IF b.i = Len(targets) THEN "rmdir" ELSE "rollback",
              !.log = Append(@, Call("cleanup_worktree", worktree.worktree_path, r[1]))],
           r[2] >> : r \in cleanup_worktree(f, worktree.worktree_path)}

BuildRollback ==
    /\ build.pc = "rollback"
    /\ \E s \in rollback_one_worktree(build, fs) : build' = s[1] /\ fs' = s[2]

\* Variant of the removal that takes the shared directory with all it holds.
remove_shared_dir_recursive(b, f) ==
    {<< [b EXCEPT
           !.pc = "done",
           !.result = "PartialCreation",
           !.log = Append(@, Call("remove_dir", b.workspace_dir, r[1]))],
        r[2] >> : r \in remove_dir_all(f, b.workspace_dir)}

\* remove_dir(workspace_dir), its failure passed over; then Err(PartialCreation).
remove_shared_dir(b, f) ==
    {<< [b EXCEPT
           !.pc = "done",
           !.result = "PartialCreation",
           !.log = Append(@, Call("remove_dir", b.workspace_dir, r[1]))],
        r[2] >> : r \in remove_dir(f, b.workspace_dir)}

BuildRmdir ==
    /\ build.pc = "rmdir"
    /\ \E s \in remove_shared_dir(build, fs) : build' = s[1] /\ fs' = s[2]

\* The filesystems after "Remove existing symlink or directory" at symlink_path.
clear_symlink_path(f, symlink_path) ==
    IF exists(f, symlink_path)
    THEN IF is_symlink(f, symlink_path)
         THEN {r[2] : r \in remove_file(f, symlink_path)}
         ELSE IF is_dir(f, symlink_path)
         THEN {r[2] : r \in remove_dir_all(f, symlink_path)}
         ELSE {f}
    ELSE {f}

\* Variant of the iteration in which a failed symlink call undoes the build.
link_one_worktree_strict(b, f) ==
    LET worktree == b.created_worktrees[b.i]
        symlink_path == Join(b.workspace_dir, worktree.repo_name)
        last_one == b.i = Len(b.created_worktrees)
    IN UNION {{<< IF r[1]
                  THEN [b EXCEPT
                          !.i = IF last_one THEN 1 ELSE b.i + 1,
                          !.pc = IF last_one THEN "done" ELSE "symlink",
                          !.result = IF last_one THEN "Ok" ELSE "none",
                          !.log = Append(@, Call("symlink", symlink_path, TRUE))]
                  ELSE [b EXCEPT
                          !.i = 1,
                          !.pc = "rollback",
                          !.failed = worktree.repo_name,
                          !.log = Append(@, Call("symlink", symlink_path, FALSE))],
                  r[2] >> : r \in symlink(g, worktree.worktree_path, symlink_path)} :
                 g \in clear_symlink_path(f, symlink_path)}

\* One iteration of "for worktree in &created_worktrees": link it into the
\* shared directory; a failure is logged and passed over.
link_one_worktree(b, f) ==
    LET worktree == b.created_worktrees[b.i]
        symlink_path == Join(b.workspace_dir, worktree.repo_name)
    IN UNION {{<< [b EXCEPT
                     !.i = IF b.i = Len(b.created_worktrees) THEN 1 ELSE b.i + 1,
                     !.pc = IF b.i = Len(b.created_worktrees) THEN "done" ELSE "symlink",
                     !.result = IF b.i = Len(b.created_worktrees) THEN "Ok" ELSE "none",
                     !.log = Append(@, Call("symlink", symlink_path, r[1]))],
                  r[2] >> : r \in symlink(g, worktree.worktree_path, symlink_path)} :
                 g \in clear_symlink_path(f, symlink_path)}

BuildSymlink ==
    /\ build.pc = "symlink"
    /\ \E s \in link_one_worktree(build, fs) : build' = s[1] /\ fs' = s[2]

\* The step the call b takes next on the disk f.
create_workspace_step(b, f) ==
    CASE b.pc = "mkdir" -> create_shared_dir(b, f)
      [] b.pc = "create" -> create_one_worktree(b, f)
      [] b.pc = "rollback" -> rollback_one_worktree(b, f)
      [] b.pc = "rmdir" -> remove_shared_dir(b, f)
      [] b.pc = "symlink" -> link_one_worktree(b, f)
      [] OTHER -> {}

\* Lists of distinct repositories, up to MaxRepos long.
RepoLists ==
    UNION {{l \in [1 .. n -> Repos] : \A i, j \in 1 .. n : i /= j => l[i] /= l[j]} :
              n \in 0 .. MaxRepos}

\* The directories the repositories and the workspaces live in.
Roots == [p \in {<< Str("r") >>, << Str("s") >>, BaseDir} |-> Dir]

\* What may be on disk when a workspace is built: no shared directory, an empty
\* one, one holding a file, one holding a stale link under a repository's name.
Layouts ==
    { Roots,
      Put(Roots, WorkspaceDir, Dir),
      Put(Put(Roots, WorkspaceDir, Dir), Join(WorkspaceDir, Str("m")), File),
      Put(Put(Roots, WorkspaceDir, Dir), Join(WorkspaceDir, Str("A")),
          Symlink(<< Str("r"), Str("old") >>)),
      Put(Put(Roots, WorkspaceDir, Dir), Join(WorkspaceDir, Str("A")), Dir) }

Opt(S) == {None} \cup {Some(x) : x \in S}

\* No other WorkspaceManager call is in flight.
NoWork == [op |-> "none", pc |-> "idle"]

Init ==
    /\ project \in {f \in [Tasks -> Projects] : f["T1"] = "P1" /\ f["T2"] = "P1"}
    /\ status = [t \in Tasks |-> "Todo"]
    /\ execution_mode = [t \in Tasks |-> "Parallel"]
    /\ queue_position = [t \in Tasks |-> None]
    /\ last = NoCall
    /\ fs = Roots
    /\ build = Idle
    /\ peer = Idle
    /\ call = NoWork

\* The call is not recorded.
Forget == last' = NoCall

\* A task request leaves the disk alone, a workspace call the tasks.
SameDisk == UNCHANGED wvars
SameTasks == UNCHANGED qvars
\* A workspace call leaves the other workspace calls alone.
OnlyBuild == UNCHANGED << peer, call >>

\* Scheduling view: statuses change, requests carry positions in range, and the
\* record keeps the advance calls.
Next ==
    \/ \E t \in Tasks, st \in Opt(TaskStatus), md \in Opt(ExecutionMode) :
          UpdateTask(t, st, md) /\ Forget /\ SameDisk
    \/ \E t \in Tasks : Enqueue(t) /\ Forget /\ SameDisk
    \/ \E t \in Tasks : Dequeue(t) /\ Forget /\ SameDisk
    \/ \E t \in Tasks, p \in PosInRange : ReorderQueue(t, p) /\ Forget /\ SameDisk
    \/ \E t \in Tasks, p \in PosInRange : Reorder(project[t], t, p) /\ Forget /\ SameDisk
    \/ \E t \in Tasks : Advance(t) /\ SameDisk

Spec == Init /\ [][Next]_vars

\* Queue view: statuses stay as created, requests carry any position, and the
\* record keeps the reorder calls.
QueueNext ==
    \/ \E t \in Tasks, p \in PosInputs : ReorderQueue(t, p) /\ Forget /\ SameDisk
    \/ \E pid \in Projects, t \in TaskIds, p \in PosInputs :
          Reorder(pid, t, p) /\ last' = ReorderCall(pid, t, p) /\ SameDisk
    \/ \E t \in Tasks, p \in PosInputs : UpdatePosition(t, p) /\ Forget /\ SameDisk
    \/ \E t \in Tasks, md \in ExecutionMode : UpdateTask(t, None, Some(md)) /\ Forget /\ SameDisk
    \/ \E t \in Tasks : Enqueue(t) /\ Forget /\ SameDisk
    \/ \E t \in Tasks : Dequeue(t) /\ Forget /\ SameDisk

QueueSpec == Init /\ [][QueueNext]_vars
\* Workspace view: one create_workspace call on some initial layout.
BuildInit ==
    /\ project = [t \in Tasks |-> "P1"]
    /\ status = [t \in Tasks |-> "Todo"]
    /\ execution_mode = [t \in Tasks |-> "Parallel"]
    /\ queue_position = [t \in Tasks |-> None]
    /\ last = NoCall
    /\ fs \in Layouts
    /\ build = Idle
    /\ peer = Idle
    /\ call = NoWork

BuildNext ==
    \/ \E repos \in RepoLists, b \in Branches : BuildStart(WorkspaceDir, repos, b) /\ SameTasks /\ OnlyBuild
    \/ BuildMkdir /\ SameTasks /\ OnlyBuild
    \/ BuildCreate /\ SameTasks /\ OnlyBuild
    \/ BuildRollback /\ SameTasks /\ OnlyBuild
    \/ BuildRmdir /\ SameTasks /\ OnlyBuild
    \/ BuildSymlink /\ SameTasks /\ OnlyBuild

BuildSpec == BuildInit /\ [][BuildNext]_vars

\* No task request is under way and the tasks are as created.
TasksAtRest ==
    /\ project = [t \in Tasks |-> "P1"]
    /\ status = [t \in Tasks |-> "Todo"]
    /\ execution_mode = [t \in Tasks |-> "Parallel"]
    /\ queue_position = [t \in Tasks |-> None]
    /\ last = NoCall

\* A WorkspaceManager call other than create_workspace leaves the builds alone.
OnlyCall == UNCHANGED << build, peer >>

\* ------------------------------------------------------- reconcile view
\* The progress of a call: the disk, the calls made so far, whether the last one
\* succeeded, and whether some call failed that the disk would have let succeed.
Progress(f) == [fs |-> f, log |-> << >>, ok |-> TRUE, fault |-> FALSE]

\* The progress after one more call, results being the outcomes the call may have.
Step(st, op, path, results) ==
    {[fs |-> r[2],
      log |-> Append(st.log, Call(op, path, r[1])),
      ok |-> r[1],
      fault |-> st.fault \/ (~r[1] /\ \E s \in results : s[1])] : r \in results}

\* "Check if old-style worktree exists (directory with .git file, not a symlink)"
is_legacy_unmigrated(f, old_worktree_path) ==
    /\ exists(f, old_worktree_path)
    /\ ~is_symlink(f, old_worktree_path)
    /\ f[old_worktree_path].kind = "worktree"

\* Variant of the migration that leaves the old location alone after a failed
\* move.
migrate_old_worktree_keeping(st, old_worktree_path, new_worktree_path) ==
    IF is_legacy_unmigrated(st.fs, old_worktree_path)
    THEN {[m EXCEPT !.ok = TRUE] :
             m \in Step(st, "move_worktree", old_worktree_path,
                        move_worktree(st.fs, old_worktree_path, new_worktree_path))}
    ELSE {st}

\* "Migrate: move worktree from old location to new location"; a failed move is
\* followed by remove_dir_all of the old location, its result ignored.
migrate_old_worktree(st, old_worktree_path, new_worktree_path) ==
    IF is_legacy_unmigrated(st.fs, old_worktree_path)
    THEN UNION {IF m.ok
                THEN {m}
                ELSE {[c EXCEPT !.ok = TRUE] :
                         c \in Step(m, "remove_dir_all", old_worktree_path,
                                    remove_dir_all(m.fs, old_worktree_path))} :
                   m \in Step(st, "move_worktree", old_worktree_path,
                              move_worktree(st.fs, old_worktree_path, new_worktree_path))}
    ELSE {st}

\* Variant of relink that does not link again a path it found linked.
relink_unless_linked(st, new_worktree_path, old_worktree_path) ==
    {[l EXCEPT !.ok = TRUE] :
        l \in IF is_symlink(st.fs, old_worktree_path)
              THEN Step(st, "remove_file", old_worktree_path,
                        remove_file(st.fs, old_worktree_path))
              ELSE Step(st, "symlink", old_worktree_path,
                        symlink(st.fs, new_worktree_path, old_worktree_path))}

\* "Create symlink in workspace_dir pointing to worktree": what is at the old
\* location is removed first, every failure is passed over.
relink(st, new_worktree_path, old_worktree_path) ==
    LET cleared ==
            IF is_symlink(st.fs, old_worktree_path)
            THEN Step(st, "remove_file", old_worktree_path,
                      remove_file(st.fs, old_worktree_path))
            ELSE IF exists(st.fs, old_worktree_path)
            THEN Step(st, "remove_dir_all", old_worktree_path,
                      remove_dir_all(st.fs, old_worktree_path))
            ELSE {st}
    IN UNION {{[l EXCEPT !.ok = TRUE] :
                  l \in Step(c, "symlink", old_worktree_path,
                             symlink(c.fs, new_worktree_path, old_worktree_path))} :
                 c \in cleared}

\* Variant of the iteration that migrates and links but does not call
\* ensure_worktree_exists.
ensure_repo_without_ensure(st, workspace_dir, repo, branch_name) ==
    LET new_worktree_path == compute_worktree_path(repo.path, branch_name)
        old_worktree_path == Join(workspace_dir, repo.name)
    IN UNION {relink(m, new_worktree_path, old_worktree_path) :
                 m \in migrate_old_worktree(st, old_worktree_path, new_worktree_path)}

\* Variant of the iteration in which a failed move_worktree ends the call.
ensure_repo_failing_on_move(st, workspace_dir, repo, branch_name) ==
    LET new_worktree_path == compute_worktree_path(repo.path, branch_name)
        old_worktree_path == Join(workspace_dir, repo.name)
        Rest(m) ==
            UNION {IF e.ok THEN relink(e, new_worktree_path, old_worktree_path) ELSE {e} :
                      e \in Step(m, "ensure_worktree_exists", new_worktree_path,
                                 ensure_worktree_exists(m.fs, new_worktree_path))}
    IN IF is_legacy_unmigrated(st.fs, old_worktree_path)
       THEN UNION {IF m.ok THEN Rest(m) ELSE {m} :
                      m \in Step(st, "move_worktree", old_worktree_path,
                                 move_worktree(st.fs, old_worktree_path, new_worktree_path))}
       ELSE Rest(st)

\* Variant of the iteration that passes over a failed ensure_worktree_exists and
\* links the path all the same.
ensure_repo_passing_over(st, workspace_dir, repo, branch_name) ==
    LET new_worktree_path == compute_worktree_path(repo.path, branch_name)
        old_worktree_path == Join(workspace_dir, repo.name)
        ensured == UNION {Step(m, "ensure_worktree_exists", new_worktree_path,
                               ensure_worktree_exists(m.fs, new_worktree_path)) :
                             m \in migrate_old_worktree(st, old_worktree_path,
                                                        new_worktree_path)}
    IN UNION {relink(e, new_worktree_path, old_worktree_path) : e \in ensured}

\* One iteration of "for repo in repos" of ensure_workspace_exists; ok is FALSE
\* when ensure_worktree_exists failed, which ends the call.
ensure_repo(st, workspace_dir, repo, branch_name) ==
    LET new_worktree_path == compute_worktree_path(repo.path, branch_name)
        old_worktree_path == Join(workspace_dir, repo.name)
        ensured == UNION {Step(m, "ensure_worktree_exists", new_worktree_path,
                               ensure_worktree_exists(m.fs, new_worktree_path)) :
                             m \in migrate_old_worktree(st, old_worktree_path,
                                                        new_worktree_path)}
    IN UNION {IF e.ok THEN relink(e, new_worktree_path, old_worktree_path) ELSE {e} :
                 e \in ensured}

\* No ensure_workspace_exists call yet.
ReconcileIdle ==
    [op |-> "ensure_workspace_exists", pc |-> "idle", run |-> 0, workspace_dir |-> << >>,
     repos |-> << >>, branch_name |-> << >>, i |-> 0, result |-> "none",
     log |-> << >>, fault |-> FALSE, first |-> << >>]

\* The call's record takes over the progress st.
Record(c, st) == [c EXCEPT !.log = @ \o st.log, !.fault = @ \/ st.fault]

\* ensure_workspace_exists is called: an empty list is refused at once.
ReconcileStart(workspace_dir, repos, branch_name) ==
    /\ call.pc = "idle"
    /\ call' = [ReconcileIdle EXCEPT
           !.run = 1, !.workspace_dir = workspace_dir, !.repos = repos,
           !.branch_name = branch_name,
           !.pc = IF repos = << >> THEN "done" ELSE "mkdir",
           !.result = IF repos = << >> THEN "NoRepositories" ELSE "none"]
    /\ UNCHANGED fs

\* "Ensure shared workspace dir exists"
ReconcileMkdir ==
    /\ call.pc = "mkdir"
    /\ \E st \in (IF exists(fs, call.workspace_dir)
                  THEN {Progress(fs)}
                  ELSE Step(Progress(fs), "create_dir_all", call.workspace_dir,
                            create_dir_all(fs, call.workspace_dir))) :
          /\ fs' = st.fs
          /\ call' = [Record(call, st) EXCEPT
                 !.pc = IF st.ok THEN "repo" ELSE "done",
                 !.i = 1,
                 !.result = IF st.ok THEN "none" ELSE "Io"]

\* One iteration of "for repo in repos".
ReconcileRepo ==
    /\ call.pc = "repo"
    /\ \E st \in ensure_repo(Progress(fs), call.workspace_dir, call.repos[call.i],
                             call.branch_name) :
          /\ fs' = st.fs
          /\ call' = [Record(call, st) EXCEPT
                 !.pc = IF st.ok /\ call.i < Len(call.repos) THEN "repo" ELSE "done",
                 !.i = call.i + 1,
                 !.result = IF ~st.ok THEN "Worktree"
                            ELSE IF call.i < Len(call.repos) THEN "none" ELSE "Ok"]

\* ensure_workspace_exists is called once more with the same arguments; the record
\* keeps what the first call left.
ReconcileAgain ==
    /\ call.pc = "done"
    /\ call.run = 1
    /\ call.repos /= << >>
    /\ call' = [ReconcileIdle EXCEPT
           !.run = 2, !.workspace_dir = call.workspace_dir, !.repos = call.repos,
           !.branch_name = call.branch_name, !.pc = "mkdir",
           !.first = [fs |-> fs, result |-> call.result, log |-> call.log,
                      fault |-> call.fault]]
    /\ UNCHANGED fs

\* Largest number of repositories a reconcile is called with.
MaxReconcileRepos == 2

ReconcileRepoLists == {l \in RepoLists : Len(l) <= MaxReconcileRepos}

\* The working tree of RepoA for branch x.
TreeOfA == compute_worktree_path(RepoA.path, Str("x"))

\* What may be on disk when a workspace is reconciled: nothing, an empty shared
\* directory, the current layout, a legacy working tree not yet migrated (with the
\* sibling path free or taken), a stale link, a file or a directory in the way.
ReconcileLayouts ==
    LET W == Put(Roots, WorkspaceDir, Dir)
        A == Join(WorkspaceDir, RepoA.name)
    IN { Roots,
         W,
         Put(Put(W, TreeOfA, Worktree), A, Symlink(TreeOfA)),
         Put(W, A, Worktree),
         Put(Put(W, TreeOfA, Worktree), A, Worktree),
         Put(W, A, Symlink(<< Str("r"), Str("old") >>)),
         Put(W, A, File),
         Put(W, A, Dir) }

ReconcileInit ==
    /\ TasksAtRest
    /\ fs \in ReconcileLayouts
    /\ build = Idle
    /\ peer = Idle
    /\ call = ReconcileIdle

ReconcileNext ==
    \/ \E repos \in ReconcileRepoLists, b \in Branches :
          ReconcileStart(WorkspaceDir, repos, b) /\ SameTasks /\ OnlyCall
    \/ ReconcileMkdir /\ SameTasks /\ OnlyCall
    \/ ReconcileRepo /\ SameTasks /\ OnlyCall
    \/ ReconcileAgain /\ SameTasks /\ OnlyCall

ReconcileSpec == ReconcileInit /\ [][ReconcileNext]_vars

\* --------------------------------------------------------- migrate view
\* format!("{}-migrating", file_name)
MigratingSuffix == << "-", "m", "i", "g", "r", "a", "t", "i", "n", "g" >>

\* workspace_dir.with_file_name(temp_name)
temp_path(workspace_dir) ==
    Join(Parent(workspace_dir), FileName(workspace_dir) \o MigratingSuffix)

\* The node a path leads to, links followed; only asked of paths that exist.
Resolve(f, p) == IF f[p].kind = "symlink" THEN f[f[p].target] ELSE f[p]

\* Variant of is_old_style that does not look at the expected new location.
is_old_style_ignoring_expected(f, workspace_dir, expected_worktree_path) ==
    /\ exists(f, workspace_dir)
    /\ Resolve(f, workspace_dir).kind = "worktree"

\* "Detect old-style: workspace_dir exists AND has .git file (worktree marker) AND
\* expected new location doesn't exist"
is_old_style(f, workspace_dir, expected_worktree_path) ==
    /\ exists(f, workspace_dir)
    /\ Resolve(f, workspace_dir).kind = "worktree"
    /\ ~exists(f, expected_worktree_path)

\* No migrate_legacy_worktree call yet.
MigrateIdle ==
    [op |-> "migrate_legacy_worktree", pc |-> "idle", workspace_dir |-> << >>,
     repo |-> RepoA, result |-> "none", log |-> << >>, before |-> << >>,
     run |-> 0, first |-> << >>]

\* migrate_legacy_worktree is called: without the legacy layout it returns
\* Ok(false) at once.
MigrateStart(workspace_dir, repo) ==
    /\ call.pc = "idle"
    /\ LET old == is_old_style(fs, workspace_dir, Join(workspace_dir, repo.name))
       IN call' = [MigrateIdle EXCEPT
              !.run = 1,
              !.workspace_dir = workspace_dir, !.repo = repo, !.before = fs,
              !.pc = IF old THEN "move_out" ELSE "done",
              !.result = IF old THEN "none" ELSE "false"]
    /\ UNCHANGED fs

\* migrate_legacy_worktree is called once more with the same arguments; the record
\* keeps what the first call found and left.
MigrateAgain ==
    /\ call.pc = "done"
    /\ call.run = 1
    /\ LET old == is_old_style(fs, call.workspace_dir,
                               Join(call.workspace_dir, call.repo.name))
       IN call' = [MigrateIdle EXCEPT
              !.run = 2,
              !.workspace_dir = call.workspace_dir, !.repo = call.repo, !.before = fs,
              !.pc = IF old THEN "move_out" ELSE "done",
              !.result = IF old THEN "none" ELSE "false",
              !.first = [before |-> call.before, result |-> call.result]]
    /\ UNCHANGED fs

\* "Move old worktree to temp location": move_worktree(workspace_dir, temp_path)?
MigrateMoveOut ==
    /\ call.pc = "move_out"
    /\ \E r \in move_worktree(fs, call.workspace_dir, temp_path(call.workspace_dir)) :
          /\ fs' = r[2]
          /\ call' = [call EXCEPT
                 !.pc = IF r[1] THEN "mkdir" ELSE "done",
                 !.result = IF r[1] THEN "none" ELSE "Worktree",
                 !.log = Append(@, Call("move_worktree", call.workspace_dir, r[1]))]

\* Variant of the step that goes on without creating the directory.
MigrateMkdirSkipped ==
    /\ call.pc = "mkdir"
    /\ call' = [call EXCEPT !.pc = "move_in"]
    /\ UNCHANGED fs

\* "Create new workspace directory": create_dir_all(workspace_dir)?
MigrateMkdir ==
    /\ call.pc = "mkdir"
    /\ \E r \in create_dir_all(fs, call.workspace_dir) :
          /\ fs' = r[2]
          /\ call' = [call EXCEPT
                 !.pc = IF r[1] THEN "move_in" ELSE "done",
                 !.result = IF r[1] THEN "none" ELSE "Io",
                 !.log = Append(@, Call("create_dir_all", call.workspace_dir, r[1]))]

\* Variant of the step that puts the disk back as the call found it when the move
\* fails.
MigrateMoveInUndoing ==
    /\ call.pc = "move_in"
    /\ \E r \in move_worktree(fs, temp_path(call.workspace_dir),
                              Join(call.workspace_dir, call.repo.name)) :
          /\ fs' = IF r[1] THEN r[2] ELSE call.before
          /\ call' = [call EXCEPT
                 !.pc = IF r[1] THEN "remove_temp" ELSE "done",
                 !.result = IF r[1] THEN "none" ELSE "Worktree",
                 !.log = Append(@, Call("move_worktree", temp_path(call.workspace_dir), r[1]))]

\* "Move worktree to final location": move_worktree(temp_path, expected)?
MigrateMoveIn ==
    /\ call.pc = "move_in"
    /\ \E r \in move_worktree(fs, temp_path(call.workspace_dir),
                              Join(call.workspace_dir, call.repo.name)) :
          /\ fs' = r[2]
          /\ call' = [call EXCEPT
                 !.pc = IF r[1] THEN "remove_temp" ELSE "done",
                 !.result = IF r[1] THEN "none" ELSE "Worktree",
                 !.log = Append(@, Call("move_worktree", temp_path(call.workspace_dir), r[1]))]

\* What is left at temp_path is removed, a failure passed over; then Ok(true).
MigrateRemoveTemp ==
    /\ call.pc = "remove_temp"
    /\ LET temp == temp_path(call.workspace_dir)
       IN \E st \in (IF exists(fs, temp)
                     THEN Step(Progress(fs), "remove_dir_all", temp, remove_dir_all(fs, temp))
                     ELSE {Progress(fs)}) :
             /\ fs' = st.fs
             /\ call' = [call EXCEPT !.pc = "done", !.result = "true",
                                     !.log = @ \o st.log]

\* What may be on disk when the migration is called: no shared directory, a shared
\* directory of the new layout (empty, or holding a working tree), and a shared
\* directory that is itself a working tree: alone, holding a directory, a stale
\* link or a live link under a repository's name, with the temporary path taken,
\* holding a file of the working tree, or holding a directory under another name.
MigrateLayouts ==
    LET W == Put(Roots, WorkspaceDir, Dir)
        L == Put(Roots, WorkspaceDir, Worktree)
        A == Join(WorkspaceDir, RepoA.name)
    IN { Roots,
         W,
         Put(W, A, Worktree),
         L,
         Put(L, A, Dir),
         Put(L, A, Symlink(<< Str("r"), Str("old") >>)),
         Put(Put(L, TreeOfA, Worktree), A, Symlink(TreeOfA)),
         Put(L, temp_path(WorkspaceDir), Dir),
         Put(L, Join(WorkspaceDir, Str("m")), File),
         Put(L, Join(WorkspaceDir, RepoB.name), Dir) }

MigrateInit ==
    /\ TasksAtRest
    /\ fs \in MigrateLayouts
    /\ build = Idle
    /\ peer = Idle
    /\ call = MigrateIdle

MigrateNext ==
    \/ \E repo \in Repos : MigrateStart(WorkspaceDir, repo) /\ SameTasks /\ OnlyCall
    \/ MigrateMoveOut /\ SameTasks /\ OnlyCall
    \/ MigrateMkdir /\ SameTasks /\ OnlyCall
    \/ MigrateMoveIn /\ SameTasks /\ OnlyCall
    \/ MigrateRemoveTemp /\ SameTasks /\ OnlyCall
    \/ MigrateAgain /\ SameTasks /\ OnlyCall

MigrateSpec == MigrateInit /\ [][MigrateNext]_vars

\* --------------------------------------------------------- destroy view
\* cleanup_data: the working-tree path of every repository, in input order.
cleanup_data(repos, branch_name) ==
    [i \in DOMAIN repos |-> compute_worktree_path(repos[i].path, branch_name)]

\* Variant of cleanup_workspace_result that reports a failed removal.
cleanup_workspace_result_strict(removed) == IF removed THEN "Ok" ELSE "Io"

\* cleanup_workspace: the value returned after the removal of the shared
\* directory, whose failure is only logged.
cleanup_workspace_result(removed) == "Ok"

\* No cleanup_workspace call yet.
DestroyIdle ==
    [op |-> "cleanup_workspace", pc |-> "idle", workspace_dir |-> << >>, repos |-> << >>,
     branch_name |-> << >>, cleanup_data |-> << >>, i |-> 0, result |-> "none",
     log |-> << >>]

\* cleanup_workspace is called and collects the working-tree paths.
DestroyStart(workspace_dir, repos, branch_name) ==
    /\ call.pc = "idle"
    /\ call' = [DestroyIdle EXCEPT
           !.workspace_dir = workspace_dir, !.repos = repos, !.branch_name = branch_name,
           !.cleanup_data = cleanup_data(repos, branch_name),
           !.i = 1,
           !.pc = IF repos = << >> THEN "remove" ELSE "cleanup"]
    /\ UNCHANGED fs

\* WorktreeManager::batch_cleanup_worktrees, one working tree: a failure is logged
\* and the batch goes on; the batch itself returns Ok.
DestroyCleanup ==
    /\ call.pc = "cleanup"
    /\ LET worktree_path == call.cleanup_data[call.i]
       IN \E r \in cleanup_worktree(fs, worktree_path) :
             /\ fs' = r[2]
             /\ call' = [call EXCEPT
                    !.i = call.i + 1,
                    !.pc = IF call.i = Len(call.cleanup_data) THEN "remove" ELSE "cleanup",
                    !.log = Append(@, Call("cleanup_worktree", worktree_path, r[1]))]

\* Variant of the step that leaves the shared directory in place.
DestroyRemoveSkipped ==
    /\ call.pc = "remove"
    /\ call' = [call EXCEPT !.pc = "done", !.result = cleanup_workspace_result(TRUE)]
    /\ UNCHANGED fs

\* "Remove the shared workspace directory": remove_dir_all when it exists, a
\* failure only logged; then Ok(()).
DestroyRemove ==
    /\ call.pc = "remove"
    /\ \E st \in (IF exists(fs, call.workspace_dir)
                  THEN Step(Progress(fs), "remove_dir_all", call.workspace_dir,
                            remove_dir_all(fs, call.workspace_dir))
                  ELSE {Progress(fs)}) :
          /\ fs' = st.fs
          /\ call' = [call EXCEPT !.pc = "done",
                                  !.result = cleanup_workspace_result(st.ok),
                                  !.log = @ \o st.log]

\* What may be on disk when a workspace is destroyed: nothing of it, a workspace
\* built for RepoA and RepoB on branch x, a shared directory holding a file only.
DestroyLayouts ==
    LET W == Put(Roots, WorkspaceDir, Dir)
        TreeOfB == compute_worktree_path(RepoB.path, Str("x"))
    IN { Roots,
         Put(Put(Put(Put(W, TreeOfA, Worktree), TreeOfB, Worktree),
                 Join(WorkspaceDir, RepoA.name), Symlink(TreeOfA)),
             Join(WorkspaceDir, RepoB.name), Symlink(TreeOfB)),
         Put(W, Join(WorkspaceDir, Str("m")), File) }

DestroyInit ==
    /\ TasksAtRest
    /\ fs \in DestroyLayouts
    /\ build = Idle
    /\ peer = Idle
    /\ call = DestroyIdle

DestroyNext ==
    \/ \E repos \in RepoLists, b \in Branches :
          DestroyStart(WorkspaceDir, repos, b) /\ SameTasks /\ OnlyCall
    \/ DestroyCleanup /\ SameTasks /\ OnlyCall
    \/ DestroyRemove /\ SameTasks /\ OnlyCall

DestroySpec == DestroyInit /\ [][DestroyNext]_vars

\* ----------------------------------------------------------- sweep view
\* DbWorkspace::container_ref_exists: whether a workspace record refers to the
\* path, or a failed query.
container_ref_exists(owned, path) ==
    {IF path \in owned THEN "true" ELSE "false", "Err"}

\* Variant of the guard that takes every answered query for "no record".
is_orphan_when_answered(answer) == answer \in {"false", "true"}

\* "if let Ok(false) = container_ref_exists(..)": the answers on which the
\* directory is cleaned up.
is_orphan(answer) == answer = "false"

\* cleanup_workspace_without_repos: the directory's suspected working trees are
\* cleaned up, then the directory is removed; when it cannot be read it is removed
\* directly. Every failure but that of the direct removal is passed over, and an
\* entry that cannot be read is left out (filter_map(|e| e.ok())).
cleanup_workspace_without_repos(st, workspace_dir) ==
    UNION {IF ~rd[1]
           THEN Step(st, "remove_dir_all", workspace_dir, remove_dir_all(st.fs, workspace_dir))
           ELSE LET entries == rd[2]
                    Clean[k \in 0 .. Len(entries)] ==
                        IF k = 0 THEN {st}
                        ELSE UNION {IF is_dir(c.fs, entries[k])
                                    THEN Step(c, "cleanup_suspected_worktree", entries[k],
                                              cleanup_suspected_worktree(c.fs, entries[k]))
                                             \cup {c}
                                    ELSE {c} : c \in Clean[k - 1]}
                IN UNION {{[x EXCEPT !.ok = TRUE] :
                              x \in IF exists(c.fs, workspace_dir)
                                    THEN Step(c, "remove_dir_all", workspace_dir,
                                              remove_dir_all(c.fs, workspace_dir))
                                    ELSE {c}} : c \in Clean[Len(entries)]} :
              rd \in read_dir(st.fs, workspace_dir)}

\* No cleanup_orphan_workspaces call yet; owned are the paths workspace records
\* refer to.
SweepIdle ==
    [op |-> "cleanup_orphan_workspaces", pc |-> "idle", owned |-> {}, entries |-> << >>,
     unreadable |-> {}, answers |-> << >>, i |-> 0, log |-> << >>]

\* cleanup_orphan_workspaces is called: it returns at once when it is disabled,
\* when the base directory does not exist or cannot be read. Of the entries read,
\* any may come as an error (unreadable holds their indices).
SweepStart(disabled) ==
    /\ call.pc = "idle"
    /\ \E rd \in read_dir(fs, BaseDir) :
          \E unreadable \in SUBSET DOMAIN rd[2] :
              call' = IF disabled \/ ~exists(fs, BaseDir) \/ ~rd[1] \/ rd[2] = << >>
                      THEN [call EXCEPT !.pc = "done"]
                      ELSE [call EXCEPT !.pc = "query", !.entries = rd[2],
                                        !.unreadable = unreadable, !.i = 1]
    /\ UNCHANGED fs

\* The next entry or the end of the sweep.
SweepOn(c) ==
    [c EXCEPT !.i = @ + 1, !.pc = IF c.i = Len(c.entries) THEN "done" ELSE "query"]

\* One entry: one that came as an error or is not a directory is skipped, a
\* directory is asked about.
SweepQuery ==
    /\ call.pc = "query"
    /\ LET path == call.entries[call.i]
       IN IF call.i \in call.unreadable
          THEN call' = SweepOn([call EXCEPT !.answers = Append(@, "unreadable")])
          ELSE IF ~is_dir(fs, path)
          THEN call' = SweepOn([call EXCEPT !.answers = Append(@, "skipped")])
          ELSE \E answer \in container_ref_exists(call.owned, path) :
                  call' = IF is_orphan(answer)
                          THEN [call EXCEPT !.answers = Append(@, answer), !.pc = "cleanup"]
                          ELSE SweepOn([call EXCEPT !.answers = Append(@, answer)])
    /\ UNCHANGED fs

\* Variant of the step in which a failed call ends the sweep.
SweepCleanupStopping ==
    /\ call.pc = "cleanup"
    /\ \E st \in cleanup_workspace_without_repos(Progress(fs), call.entries[call.i]) :
          /\ fs' = st.fs
          /\ call' = IF \E k \in DOMAIN st.log : ~st.log[k].ok
                     THEN [call EXCEPT !.log = @ \o st.log, !.pc = "done"]
                     ELSE SweepOn([call EXCEPT !.log = @ \o st.log])

\* Variant of the step that leaves alone a directory a build is working on.
SweepCleanupUnlessBuilding ==
    /\ call.pc = "cleanup"
    /\ IF build.pc \notin {"idle", "done"} /\ build.workspace_dir = call.entries[call.i]
       THEN call' = SweepOn(call) /\ UNCHANGED fs
       ELSE \E st \in cleanup_workspace_without_repos(Progress(fs), call.entries[call.i]) :
               /\ fs' = st.fs
               /\ call' = SweepOn([call EXCEPT !.log = @ \o st.log])

\* The entry is cleaned up as an orphaned workspace; a failure is logged.
SweepCleanup ==
    /\ call.pc = "cleanup"
    /\ \E st \in cleanup_workspace_without_repos(Progress(fs), call.entries[call.i]) :
          /\ fs' = st.fs
          /\ call' = SweepOn([call EXCEPT !.log = @ \o st.log])

\* The workspace directories of the base directory.
WorkspaceDir2 == Join(BaseDir, Str("2"))

\* What may be on disk when the base directory is swept: no base directory, an
\* empty one, and in it a workspace directory with a working tree and a file, an
\* empty workspace directory, and a file.
SweepLayouts ==
    LET W == Put(Put(Put(Roots, WorkspaceDir, Dir), Join(WorkspaceDir, RepoA.name), Worktree),
                 Join(WorkspaceDir, Str("m")), File)
    IN { Unlink(Roots, BaseDir),
         Roots,
         W,
         Put(W, WorkspaceDir2, Dir),
         Put(Put(W, WorkspaceDir2, Dir), Join(BaseDir, Str("f")), File) }

SweepInit ==
    /\ TasksAtRest
    /\ fs \in SweepLayouts
    /\ build = Idle
    /\ peer = Idle
    /\ \E owned \in SUBSET {WorkspaceDir, WorkspaceDir2} :
          call = [SweepIdle EXCEPT !.owned = owned]

SweepNext ==
    \/ \E disabled \in BOOLEAN : SweepStart(disabled) /\ SameTasks /\ OnlyCall
    \/ SweepQuery /\ SameTasks /\ OnlyCall
    \/ SweepCleanup /\ SameTasks /\ OnlyCall

SweepSpec == SweepInit /\ [][SweepNext]_vars

\* ------------------------------------------------------ concurrent view
\* Largest number of repositories each of two concurrent builds is called with.
MaxConcRepos == 2

\* The repository lists of the concurrent builds.
ConcRepoLists ==
    {l \in RepoLists : /\ Len(l) \in 1 .. MaxConcRepos
                       /\ \A i \in DOMAIN l : l[i] \in {RepoA, RepoB}}

\* The branches of the concurrent builds: two of them differ only in '/' and '-'.
ConcBranches == Branches \cup {<< "f", "-", "x" >>}

\* The repositories of a list.
RepoSet(repos) == {repos[i] : i \in DOMAIN repos}

\* A call for repos and branch_name is for another branch or for other
\* repositories than the call b, if b has been made at all.
Apart(b, repos, branch_name) ==
    \/ b.pc = "idle"
    \/ b.branch_name /= branch_name
    \/ RepoSet(b.repos) \cap RepoSet(repos) = {}

\* A second create_workspace call is made.
PeerStart(workspace_dir, repos, branch_name) ==
    /\ peer.pc = "idle"
    /\ peer.result = "none"
    /\ peer' = [Idle EXCEPT !.workspace_dir = workspace_dir, !.repos = repos,
                            !.branch_name = branch_name,
                            !.pc = IF repos = << >> THEN "done" ELSE "mkdir",
                            !.result = IF repos = << >> THEN "NoRepositories" ELSE "none"]
    /\ UNCHANGED fs

\* The second call takes its next step.
PeerStep ==
    \E s \in create_workspace_step(peer, fs) : peer' = s[1] /\ fs' = s[2]

ConcInit ==
    /\ TasksAtRest
    /\ fs = Roots
    /\ build = Idle
    /\ peer = Idle
    /\ call = NoWork

ConcNext ==
    \/ \E repos \in ConcRepoLists, b \in ConcBranches :
          /\ Apart(peer, repos, b)
          /\ BuildStart(WorkspaceDir, repos, b) /\ SameTasks /\ UNCHANGED << peer, call >>
    \/ \E repos \in ConcRepoLists, b \in ConcBranches :
          /\ Apart(build, repos, b)
          /\ PeerStart(WorkspaceDir2, repos, b) /\ SameTasks /\ UNCHANGED << build, call >>
    \/ BuildMkdir /\ SameTasks /\ UNCHANGED << peer, call >>
    \/ BuildCreate /\ SameTasks /\ UNCHANGED << peer, call >>
    \/ BuildRollback /\ SameTasks /\ UNCHANGED << peer, call >>
    \/ BuildRmdir /\ SameTasks /\ UNCHANGED << peer, call >>
    \/ BuildSymlink /\ SameTasks /\ UNCHANGED << peer, call >>
    \/ PeerStep /\ SameTasks /\ UNCHANGED << build, call >>

ConcSpec == ConcInit /\ [][ConcNext]_vars

\* ------------------------------------------------------- round-trip view
\* cleanup_workspace is called with the arguments of the build that succeeded.
DestroyBuilt ==
    /\ build.pc = "done"
    /\ build.result = "Ok"
    /\ DestroyStart(build.workspace_dir, build.repos, build.branch_name)

RoundTripInit ==
    /\ TasksAtRest
    /\ fs \in Layouts
    /\ build = Idle
    /\ peer = Idle
    /\ call = DestroyIdle

\* Round-trip view: one workspace is built and, once built, destroyed.
RoundTripNext ==
    \/ \E repos \in RepoLists, b \in Branches :
          BuildStart(WorkspaceDir, repos, b) /\ SameTasks /\ OnlyBuild
    \/ BuildMkdir /\ SameTasks /\ OnlyBuild
    \/ BuildCreate /\ SameTasks /\ OnlyBuild
    \/ BuildRollback /\ SameTasks /\ OnlyBuild
    \/ BuildRmdir /\ SameTasks /\ OnlyBuild
    \/ BuildSymlink /\ SameTasks /\ OnlyBuild
    \/ DestroyBuilt /\ SameTasks /\ OnlyCall
    \/ DestroyCleanup /\ SameTasks /\ OnlyCall
    \/ DestroyRemove /\ SameTasks /\ OnlyCall

RoundTripSpec == RoundTripInit /\ [][RoundTripNext]_vars

\* ------------------------------------------------ concurrent reorder view
\* The two reorder calls.
ReorderCalls == {1, 2}

\* No reorder call yet: its arguments, its local queue and indices, its result.
ReorderIdle ==
    [pc |-> "idle", project_id |-> "P1", task_id |-> NoSuchTask, new_position |-> 0,
     queue |-> << >>, insert_pos |-> 0, idx |-> 0, result |-> "none"]

\* reorder is called: the task is read, a task in another mode is refused, and a
\* task already at new_position needs no change.
ReorderBegin(c, pid, task_id, new_position) ==
    /\ call.of[c].pc = "idle"
    /\ LET current_position ==
               IF queue_position[task_id] = None THEN 0 ELSE queue_position[task_id][1]
           refused == execution_mode[task_id] /= "Sequential"
           unchanged == current_position = new_position
       IN call' = [call EXCEPT !.of[c] =
              [ReorderIdle EXCEPT
                  !.project_id = pid, !.task_id = task_id, !.new_position = new_position,
                  !.pc = IF refused \/ unchanged THEN "done" ELSE "read",
                  !.result = IF refused THEN "NotSequentialMode"
                             ELSE IF unchanged THEN "Ok" ELSE "none"]]
    /\ UNCHANGED << project, status, execution_mode, queue_position >>

\* "Get all tasks in the queue", "Remove the task being moved", "Insert at new
\* position (clamped to valid range)".
ReorderRead(c) ==
    /\ call.of[c].pc = "read"
    /\ \E q \in find_sequential_queue_for_project(call.of[c].project_id) :
          LET queue == SelectSeq(q, LAMBDA x : x /= call.of[c].task_id)
          IN call' = [call EXCEPT
                 !.of[c].queue = queue,
                 !.of[c].insert_pos = InsertPos(call.of[c].new_position, Len(queue)),
                 !.of[c].idx = 0,
                 !.of[c].pc = IF queue = << >> THEN "move" ELSE "write"]
    /\ UNCHANGED << project, status, execution_mode, queue_position >>

\* One iteration of "for (idx, t) in queue.iter().enumerate()": one position is
\* written.
ReorderWrite(c) ==
    /\ call.of[c].pc = "write"
    /\ LET r == call.of[c]
       IN /\ queue_position' =
                 update_queue_position(queue_position, r.queue[r.idx + 1],
                                       Some(ShiftedPos(r.idx, r.insert_pos)))
          /\ call' = [call EXCEPT
                 !.of[c].idx = r.idx + 1,
                 !.of[c].pc = IF r.idx + 1 = Len(r.queue) THEN "move" ELSE "write"]
    /\ UNCHANGED << project, status, execution_mode >>

\* "Set the moved task's position"; then Ok(()).
ReorderMove(c) ==
    /\ call.of[c].pc = "move"
    /\ queue_position' =
           update_queue_position(queue_position, call.of[c].task_id,
                                 Some(call.of[c].new_position))
    /\ call' = [call EXCEPT !.of[c].pc = "done", !.of[c].result = "Ok"]
    /\ UNCHANGED << project, status, execution_mode >>

\* The tasks are in one project; T1 and T2 are queued at 1 and 2, T3 is queued
\* at 3 or not queued. The record keeps the positions the calls start from.
ReorderInit ==
    /\ project = [t \in Tasks |-> "P1"]
    /\ status = [t \in Tasks |-> "Todo"]
    /\ \/ /\ execution_mode = [t \in Tasks |-> "Sequential"]
          /\ queue_position = [t \in Tasks |-> Some(CHOOSE i \in 1 .. 3 : TaskOrder[i] = t)]
       \/ /\ execution_mode = [t \in Tasks |-> IF t = "T3" THEN "Parallel" ELSE "Sequential"]
          /\ queue_position = [t \in Tasks |-> IF t = "T3" THEN None
                                                ELSE Some(CHOOSE i \in 1 .. 3 : TaskOrder[i] = t)]
    /\ last = NoCall
    /\ fs = Roots
    /\ build = Idle
    /\ peer = Idle
    /\ call = [op |-> "reorder", before |-> queue_position,
               of |-> [c \in ReorderCalls |-> ReorderIdle]]

\* Concurrent reorder view: two reorder calls on one project, their reads and
\* writes in any order.
ReorderNext ==
    \/ \E c \in ReorderCalls, t \in Tasks, p \in PosInRange :
          ReorderBegin(c, project[t], t, p) /\ Forget /\ UNCHANGED << fs, build, peer >>
    \/ \E c \in ReorderCalls : ReorderRead(c) /\ Forget /\ UNCHANGED << fs, build, peer >>
    \/ \E c \in ReorderCalls : ReorderWrite(c) /\ Forget /\ UNCHANGED << fs, build, peer >>
    \/ \E c \in ReorderCalls : ReorderMove(c) /\ Forget /\ UNCHANGED << fs, build, peer >>

ReorderSpec == ReorderInit /\ [][ReorderNext]_vars

\* ------------------------------------------------------------- race view
\* The caller of create_workspace persists the workspace record of the build's
\* shared directory; from then on the query finds it.
PersistRecord ==
    /\ call.op = "cleanup_orphan_workspaces"
    /\ build.pc /= "idle"
    /\ build.workspace_dir \notin call.owned
    /\ call' = [call EXCEPT !.owned = @ \cup {build.workspace_dir}]
    /\ UNCHANGED << fs, build, peer >>

RaceInit ==
    /\ TasksAtRest
    /\ fs = Roots
    /\ build = Idle
    /\ peer = Idle
    /\ call = SweepIdle

\* Race view: a sweep of the base directory runs while a workspace is built in
\* it, the steps of the two in any order.
RaceNext ==
    \/ \E repos \in ConcRepoLists :
          BuildStart(WorkspaceDir, repos, Str("x")) /\ SameTasks /\ OnlyBuild
    \/ BuildMkdir /\ SameTasks /\ OnlyBuild
    \/ BuildCreate /\ SameTasks /\ OnlyBuild
    \/ BuildRollback /\ SameTasks /\ OnlyBuild
    \/ BuildRmdir /\ SameTasks /\ OnlyBuild
    \/ BuildSymlink /\ SameTasks /\ OnlyBuild
    \/ PersistRecord /\ SameTasks
    \/ \E disabled \in BOOLEAN : SweepStart(disabled) /\ SameTasks /\ OnlyCall
    \/ SweepQuery /\ SameTasks /\ OnlyCall
    \/ SweepCleanup /\ SameTasks /\ OnlyCall

RaceSpec == RaceInit /\ [][RaceNext]_vars

\* ---------------------------------------------------------- advance view
\* The caller the queue relies on: it calls advance when a started task reaches
\* Done, Cancelled or InReview and starts the task advance returns. The record
\* holds the completion whose advance call is due, then that call and its result.

\* No completion is being handled.
HandlerIdle ==
    /\ last.op /= "completed"
    /\ ~(last.op = "advance" /\ last.result /= None /\ status[last.result[1]] = "Todo")

\* A Todo task is put into the sequential queue of its project.
LiveEnqueue(t) ==
    /\ status[t] = "Todo"
    /\ execution_mode[t] = "Parallel"
    /\ Enqueue(t)
    /\ UNCHANGED last

\* The user starts a Todo task (update_task with status InProgress).
LiveStartByUser(t) ==
    /\ status[t] = "Todo"
    /\ UpdateTask(t, Some("InProgress"), None)
    /\ UNCHANGED last

\* A started task reaches Done, Cancelled or InReview; its advance call is due.
LiveComplete(t) ==
    /\ HandlerIdle
    /\ status[t] = "InProgress"
    /\ \E st \in {"Done", "Cancelled", "InReview"} : UpdateTask(t, Some(st), None)
    /\ last' = [NoCall EXCEPT !.op = "completed", !.task = t]

\* A task in review reaches Done or Cancelled; its advance call is due.
LiveReviewed(t) ==
    /\ HandlerIdle
    /\ status[t] = "InReview"
    /\ \E st \in {"Done", "Cancelled"} : UpdateTask(t, Some(st), None)
    /\ last' = [NoCall EXCEPT !.op = "completed", !.task = t]

\* The advance call that is due.
LiveAdvance ==
    /\ last.op = "completed"
    /\ Advance(last.task)

\* The caller starts the task advance returned.
LiveStartReturned ==
    /\ last.op = "advance"
    /\ last.result /= None
    /\ status[last.result[1]] = "Todo"
    /\ UpdateTask(last.result[1], Some("InProgress"), None)
    /\ UNCHANGED last

LiveNext ==
    \/ \E t \in Tasks : LiveEnqueue(t) /\ SameDisk
    \/ \E t \in Tasks : LiveStartByUser(t) /\ SameDisk
    \/ \E t \in Tasks : LiveComplete(t) /\ SameDisk
    \/ \E t \in Tasks : LiveReviewed(t) /\ SameDisk
    \/ LiveAdvance /\ SameDisk
    \/ LiveStartReturned /\ SameDisk

\* A started task completes in the end, the advance call that is due is made, and
\* the task it returns is started; nothing makes a user start a task or end a review.
LiveSpec ==
    /\ Init
    /\ [][LiveNext]_vars
    /\ \A t \in Tasks : WF_vars(LiveComplete(t) /\ SameDisk)
    /\ WF_vars(LiveAdvance /\ SameDisk)
    /\ WF_vars(LiveStartReturned /\ SameDisk)

\* ------------------------------------------------- repeated advance view
\* advance is called; the record keeps the call and, in before, the advance call
\* made before it.
AdvanceRecorded(t) ==
    /\ \E r \in process_queue_after_completion(t) :
          last' = [NoCall EXCEPT
                     !.op = "advance", !.task = t, !.result = r,
                     !.before = IF last.op = "advance"
                                THEN [task |-> last.task, result |-> last.result]
                                ELSE << >>]
    /\ UNCHANGED << project, status, execution_mode, queue_position >>

\* A started task reaches InReview, Done or Cancelled (update_task with a status).
TaskEnds(t) ==
    /\ status[t] = "InProgress"
    /\ \E st \in {"InReview", "Done", "Cancelled"} : UpdateTask(t, Some(st), None)
    /\ UNCHANGED last

\* A task in review reaches Done or Cancelled.
ReviewEnds(t) ==
    /\ status[t] = "InReview"
    /\ \E st \in {"Done", "Cancelled"} : UpdateTask(t, Some(st), None)
    /\ UNCHANGED last

\* Repeated advance view: tasks are queued, started and ended, and advance is
\* called at any moment, whether or not the task it returned before was started.
RepeatNext ==
    \/ \E t \in Tasks : LiveEnqueue(t) /\ SameDisk
    \/ \E t \in Tasks : LiveStartByUser(t) /\ SameDisk
    \/ \E t \in Tasks : TaskEnds(t) /\ SameDisk
    \/ \E t \in Tasks : ReviewEnds(t) /\ SameDisk
    \/ \E t \in Tasks : AdvanceRecorded(t) /\ SameDisk

RepeatSpec == Init /\ [][RepeatNext]_vars

\* ------------------------------------------------------------ append view
\* The record of an enqueue call: the task, its project, the positions before it.
EnqueueCall(t) ==
    [NoCall EXCEPT !.op = "enqueue", !.task = t, !.project = project[t],
                   !.before = queue_position]

\* Append view: tasks enter and leave the queues and positions are overwritten,
\* so that enqueue meets dense queues, queues with gaps and queues that hold the
\* task already; the record keeps the enqueue calls.
AppendNext ==
    \/ \E t \in Tasks : Enqueue(t) /\ last' = EnqueueCall(t) /\ SameDisk
    \/ \E t \in Tasks : Dequeue(t) /\ Forget /\ SameDisk
    \/ \E t \in Tasks, p \in PosInRange : UpdatePosition(t, p) /\ Forget /\ SameDisk
    \/ \E t \in Tasks, md \in ExecutionMode : UpdateTask(t, None, Some(md)) /\ Forget /\ SameDisk

AppendSpec == Init /\ [][AppendNext]_vars

\* ------------------------------------------------------------- path view
\* Repository paths compute_worktree_path is applied to: two siblings of which one
\* is named like the other's working tree, a namesake elsewhere, and the root.
PathInputs ==
    { << Str("r"), Str("A") >>, << Str("r"), << "A", "-", "x" >> >>,
      << Str("s"), Str("A") >>, << >> }

\* Branch names compute_worktree_path is applied to.
BranchInputs == { Str("x"), << "x", "-", "x" >>, << "f", "/", "x" >>, << "f", "-", "x" >> }

PathArgs == [repo_path : PathInputs, branch_name : BranchInputs]

PathInit ==
    /\ TasksAtRest
    /\ fs = Roots
    /\ build = Idle
    /\ peer = Idle
    /\ \E a, b \in PathArgs :
          call = [op |-> "compute_worktree_path", pc |-> "args", a |-> a, b |-> b, out |-> << >>]

\* compute_worktree_path is applied to both inputs.
ComputePaths ==
    /\ call.pc = "args"
    /\ call' = [call EXCEPT
           !.pc = "done",
           !.out = << compute_worktree_path(call.a.repo_path, call.a.branch_name),
                      compute_worktree_path(call.b.repo_path, call.b.branch_name) >>]
    /\ UNCHANGED fs

PathNext == ComputePaths /\ SameTasks /\ OnlyCall

PathSpec == PathInit /\ [][PathNext]_vars

\* ------------------------------------------------------------------ claims
Terminal == {"Done", "Cancelled", "InReview"}

\* The sequential tasks of a project that are InProgress.
RunningSeq(pid) == {t \in SeqTasks(pid) : status[t] = "InProgress"}

\* The positions qp give the project's sequential tasks are exactly 1..N, each once.
Dense(qp, pid) ==
    /\ \A t \in SeqTasks(pid) : qp[t] /= None
    /\ {qp[t][1] : t \in SeqTasks(pid)} = 1 .. Cardinality(SeqTasks(pid))

\* C1: in every reachable state at most one task per project is in Sequential
\* mode with status InProgress.
C1_AtMostOneRunning ==
    \A pid \in Projects : Cardinality(RunningSeq(pid)) <= 1

\* An advance call on a completed task while another sequential task of its
\* project is InProgress.
AdvanceWhileOtherRunning ==
    /\ last.op = "advance"
    /\ status[last.task] \in Terminal
    /\ RunningSeq(project[last.task]) \ {last.task} /= {}

\* C2: advance(completed_task) returns None whenever another Sequential task of
\* the same project is InProgress at the call, for each of Done, Cancelled and
\* InReview as the status of completed_task.
C2_AdvanceNoneWhileOtherRunning ==
    AdvanceWhileOtherRunning => last.result = None

C2_Witness ==
    /\ AdvanceWhileOtherRunning
    /\ execution_mode[last.task] = "Sequential"
    /\ \E t \in SeqTasks(project[last.task]) : status[t] = "Todo"
    /\ last.result = None

\* An advance call on a completed sequential task while no sequential task of
\* its project is InProgress.
AdvanceOnIdleQueue ==
    /\ last.op = "advance"
    /\ execution_mode[last.task] = "Sequential"
    /\ status[last.task] \in Terminal
    /\ RunningSeq(project[last.task]) = {}

\* The Todo tasks of the sequential queue of the project of the advance call.
TodoSeq == {t \in SeqTasks(project[last.task]) : status[t] = "Todo"}

ReorderOnDenseQueue ==
    /\ last.op = "reorder"
    /\ last.task \in Tasks
    /\ last.project = project[last.task]
    /\ execution_mode[last.task] = "Sequential"
    /\ Dense(last.before, last.project)

\* C5: after every reorder call (any task of the queue, any new_position) on a
\* queue that was dense, the positions are again exactly 1..N without duplicates.
C5_ReorderKeepsDense ==
    ReorderOnDenseQueue => Dense(queue_position, last.project)

\* C6: on a dense queue of N tasks and 1 <= p <= N, reorder(project, t, p) leaves
\* t at position p and the other tasks in their previous relative order on the
\* remaining positions of 1..N.
C6_ReorderMovesToSlot ==
    (ReorderOnDenseQueue /\ last.pos \in 1 .. Cardinality(SeqTasks(last.project))) =>
        /\ queue_position[last.task] = Some(last.pos)
        /\ Dense(queue_position, last.project)
        /\ \A u, v \in SeqTasks(last.project) \ {last.task} :
              last.before[u][1] < last.before[v][1]
                  => queue_position[u][1] < queue_position[v][1]

\* The positions the project's sequential tasks hold are 1..K, each once, K being
\* the number of those tasks that hold a position.
DensePositions(pid) ==
    LET S == {t \in SeqTasks(pid) : queue_position[t] /= None}
    IN /\ {queue_position[t][1] : t \in S} = 1 .. Cardinality(S)
       /\ \A t, u \in S : queue_position[t] = queue_position[u] => t = u

\* C7: after any sequence of enqueue, dequeue, reorder, update_position and
\* reorder-queue requests the queue_position values of every project's sequential
\* tasks are exactly 1..N without gaps or duplicates (stated on the values held;
\* which tasks hold one is C8).
C7_PositionsAlwaysDense ==
    \A pid \in Projects : DensePositions(pid)

\* C8: in every reachable state a task has a queue_position if and only if its
\* execution_mode is Sequential.
C8_PositionIffSequential ==
    \A t \in Tasks : (queue_position[t] /= None) <=> (execution_mode[t] = "Sequential")
\* The create_workspace call has returned PartialCreation.
BuildFailed == build.pc = "done" /\ build.result = "PartialCreation"

\* The create_workspace call has returned Ok.
BuildSucceeded == build.pc = "done" /\ build.result = "Ok"

\* The call of op on path failed.
CallFailed(op, path) ==
    \E i \in DOMAIN build.log : build.log[i] = Call(op, path, FALSE)

\* The working trees the failed call had created before the failure.
CreatedPaths ==
    {build.created_worktrees[i].worktree_path : i \in DOMAIN build.created_worktrees}

SiblingPath(repo, branch_name) ==
    Join(Parent(repo.path),
         repo.name \o Str("-")
             \o [i \in 1 .. Len(branch_name) |->
                    IF branch_name[i] = "/" THEN "-" ELSE branch_name[i]])

\* Every repository of the call has its working tree at the sibling path and a
\* link named after it in the shared directory that points there.
EveryRepoBuiltAndLinked ==
    \A i \in DOMAIN build.repos :
        LET repo == build.repos[i]
            wp == SiblingPath(repo, build.branch_name)
            link == Join(build.workspace_dir, repo.name)
        IN /\ wp \in DOMAIN fs
           /\ fs[wp] = Worktree
           /\ link \in DOMAIN fs
           /\ fs[link] = Symlink(wp)

AllLinksMade ==
    \A i \in DOMAIN build.log : build.log[i].op = "symlink" => build.log[i].ok

\* No two repositories of the call have the same name.
DistinctNames ==
    \A i, j \in DOMAIN build.repos : build.repos[i].name = build.repos[j].name => i = j

CreateFailedFor(i) ==
    CallFailed("create_worktree", SiblingPath(build.repos[i], build.branch_name))

\* C11: when working-tree creation fails for a repository during build, build
\* returns PartialCreation with a detail that names that repository, and no other
\* error kind and no success value.
C11_CreateFailureIsPartialCreation ==
    \A i \in DOMAIN build.repos :
        (build.pc = "done" /\ CreateFailedFor(i)) =>
            /\ build.result = "PartialCreation"
            /\ build.failed = build.repos[i].name

C11_Witness ==
    /\ build.pc = "done"
    /\ build.repos = << RepoA, RepoB >>
    /\ CreateFailedFor(2)
    /\ build.result = "PartialCreation"
    /\ build.failed = RepoB.name

\* C12: build called with an empty repository list returns NoRepositories at
\* once, without touching the filesystem and without calling any primitive, and
\* nothing happens after it has returned.
C12_NoRepositoriesNoEffects ==
    /\ [][(build.pc = "idle" /\ build'.pc /= "idle" /\ build'.repos = << >>) =>
              /\ build'.pc = "done"
              /\ build'.result = "NoRepositories"
              /\ build'.log = << >>
              /\ fs' = fs]_vars
    /\ [][build.result = "NoRepositories" => (fs' = fs /\ build' = build)]_vars

C12_Witness ==
    /\ build.pc = "done"
    /\ build.repos = << >>
    /\ build.result = "NoRepositories"
    /\ build.log = << >>
    /\ WorkspaceDir \notin DOMAIN fs

\* C13: compute_worktree_path is injective: two inputs that differ in repository
\* path or in sanitized branch name never give the same working-tree path, and
\* identical inputs give the identical path.
C13_ComputePathInjective ==
    call.pc = "done" =>
        /\ (\/ call.a.repo_path /= call.b.repo_path
            \/ Sanitize(call.a.branch_name) /= Sanitize(call.b.branch_name))
               => call.out[1] /= call.out[2]
        /\ call.a = call.b => call.out[1] = call.out[2]

\* The second of two ensure_workspace_exists calls in a row has returned.
ReconciledTwice == call.op = "ensure_workspace_exists" /\ call.run = 2 /\ call.pc = "done"

MigrateCalledWithNewLayoutThere ==
    /\ call.op = "migrate_legacy_worktree"
    /\ call.pc /= "idle"
    /\ exists(call.before, Join(call.workspace_dir, call.repo.name))

\* C15: migrate_legacy_single_tree returns false and changes nothing on disk
\* whenever shared_directory/repo_name already exists, even if the shared
\* directory carries the .git file marker.
C15_MigrateNoOpWhenNewLayoutThere ==
    MigrateCalledWithNewLayoutThere =>
        /\ call.pc = "done"
        /\ call.result = "false"
        /\ call.log = << >>
        /\ fs = call.before

C15_Witness ==
    /\ MigrateCalledWithNewLayoutThere
    /\ call.before[call.workspace_dir].kind = "worktree"
    /\ call.result = "false"
    /\ fs = call.before

\* C16: reorder on a task that does not exist returns TaskNotFound, reorder on a
\* task that is not in Sequential mode returns NotSequentialMode, and in both
\* cases no task's queue_position has changed.
C16_ReorderErrorsBeforeMutation ==
    last.op = "reorder" =>
        /\ last.task \notin Tasks =>
               (last.result = Some("TaskNotFound") /\ queue_position = last.before)
        /\ (last.task \in Tasks /\ execution_mode[last.task] /= "Sequential") =>
               (last.result = Some("NotSequentialMode") /\ queue_position = last.before)

C16_Witness ==
    /\ last.op = "reorder"
    /\ last.task \in Tasks
    /\ execution_mode[last.task] = "Parallel"
    /\ last.project = project[last.task]
    /\ \E u \in SeqTasks(last.project) : queue_position[u] /= None
    /\ last.result = Some("NotSequentialMode")
    /\ queue_position = last.before

\* The cleanup_workspace call has returned.
Destroyed == call.op = "cleanup_workspace" /\ call.pc = "done"

\* The call of op on path is in the log of the call with the outcome ok.
Called(op, path, ok) == \E k \in DOMAIN call.log : call.log[k] = Call(op, path, ok)

\* C17: in destroy a failed cleanup of one repository's working tree does not end
\* the operation: cleanup is attempted for every repository, the shared directory
\* is then removed recursively (it is still there only if that removal failed),
\* and destroy returns no error, whether or not the removal failed.
C17_DestroyBestEffort ==
    Destroyed =>
        /\ call.result = "Ok"
        /\ \A i \in DOMAIN call.repos :
               LET p == SiblingPath(call.repos[i], call.branch_name)
               IN Called("cleanup_worktree", p, TRUE) \/ Called("cleanup_worktree", p, FALSE)
        /\ call.workspace_dir \in DOMAIN fs
               => Called("remove_dir_all", call.workspace_dir, FALSE)

C17_Witness ==
    /\ Destroyed
    /\ call.repos = << RepoA, RepoB >>
    /\ Called("cleanup_worktree", SiblingPath(RepoA, call.branch_name), FALSE)
    /\ Called("cleanup_worktree", SiblingPath(RepoB, call.branch_name), TRUE)
    /\ Called("remove_dir_all", call.workspace_dir, FALSE)
    /\ call.result = "Ok"

\* The sweep has gone through all entries.
Swept == call.op = "cleanup_orphan_workspaces" /\ call.pc = "done"

\* The sweep cleaned the k-th entry up as an orphaned workspace: its removal was
\* attempted.
CleanedUp(k) ==
    \/ Called("remove_dir_all", call.entries[k], TRUE)
    \/ Called("remove_dir_all", call.entries[k], FALSE)

\* C18: during a sweep a subdirectory for which the record-existence query fails
\* is treated as having no owner: it is cleaned up and removed like one for which
\* the query returned false.
C18_QueryFailureMeansOrphan ==
    Swept => \A k \in DOMAIN call.answers : call.answers[k] = "Err" => CleanedUp(k)

\* The working-tree paths the call b created or rolled back.
Touched(b) ==
    {b.log[k].path : k \in {j \in DOMAIN b.log :
                                b.log[j].op \in {"create_worktree", "cleanup_worktree"}}}

\* The working trees the call b returned are on disk.
TreesThere(b) ==
    \A i \in DOMAIN b.created_worktrees :
        LET p == b.created_worktrees[i].worktree_path
        IN p \in DOMAIN fs /\ fs[p] = Worktree

\* C19: two build calls running concurrently for different branches or for
\* different repositories do not interfere: no working-tree path is created or
\* rolled back by both, and a call that succeeded has its working trees on disk
\* as if it had run alone.
C19_ConcurrentBuildsIndependent ==
    (build.pc = "done" /\ peer.pc = "done") =>
        /\ Touched(build) \cap Touched(peer) = {}
        /\ build.result = "Ok" => TreesThere(build)
        /\ peer.result = "Ok" => TreesThere(peer)

\* The task waits in its project's sequential queue.
Queued(t) == execution_mode[t] = "Sequential" /\ status[t] = "Todo"

\* advance has just returned the task, or the task has left Todo on another way.
ReturnedOrStarted(t) ==
    \/ last.op = "advance" /\ last.result = Some(t)
    \/ status[t] /= "Todo"

\* A sequential task of the project is running, or the completion of one is
\* being handled.
QueueMoving(pid) ==
    \/ RunningSeq(pid) /= {}
    \/ last.op = "completed" /\ project[last.task] = pid
           /\ execution_mode[last.task] = "Sequential"
    \/ last.op = "advance" /\ last.result /= None /\ project[last.result[1]] = pid

CallsOf(op) == SelectSeq(build.log, LAMBDA c : c.op = op)

\* The create_workspace call has made its create_worktree calls for the first
\* n repositories, in input order, and only the last of them may have failed.
CreatedInOrder(n) ==
    LET made == CallsOf("create_worktree")
    IN /\ Len(made) = n
       /\ n <= Len(build.repos)
       /\ \A j \in 1 .. n :
             /\ made[j].path = compute_worktree_path(build.repos[j].path, build.branch_name)
             /\ ~made[j].ok => j = n

\* The create_workspace call has made its cleanup_worktree calls for the first
\* n repositories, in input order.
RolledBackInOrder(n) ==
    LET made == CallsOf("cleanup_worktree")
    IN /\ Len(made) = n
       /\ n <= Len(build.repos)
       /\ \A j \in 1 .. n :
             made[j].path = compute_worktree_path(build.repos[j].path, build.branch_name)

\* C21: build creates working trees one at a time in input order: at any moment the
\* create primitive has been invoked for a prefix 1..n of the repositories and
\* nothing was invoked after a failure; when build has returned after creation
\* failed for repository k, the create primitive was invoked for exactly
\* repositories 1..k and rollback cleanup for exactly repositories 1..k-1.
C21_CreatesInOrderRollsBackPrefix ==
    /\ \E n \in 0 .. Len(build.repos) : CreatedInOrder(n)
    /\ BuildFailed =>
          \E k \in 1 .. Len(build.repos) :
              /\ CreatedInOrder(k)
              /\ ~CallsOf("create_worktree")[k].ok
              /\ RolledBackInOrder(k - 1)

C21_Witness ==
    /\ BuildFailed
    /\ Len(build.repos) = 3
    /\ CreatedInOrder(2)
    /\ ~CallsOf("create_worktree")[2].ok
    /\ RolledBackInOrder(1)

\* Some symlink call of the create_workspace call failed.
SomeLinkFailed ==
    \E i \in DOMAIN build.log : build.log[i].op = "symlink" /\ ~build.log[i].ok

\* The container the call returns lists the working tree of every repository, in
\* input order.
ContainerListsEveryRepo ==
    /\ Len(build.created_worktrees) = Len(build.repos)
    /\ \A i \in DOMAIN build.repos :
          build.created_worktrees[i] =
              RepoWorktree(build.repos[i],
                           compute_worktree_path(build.repos[i].path, build.branch_name))

\* C22: if creating a symlink fails after all working trees were created, build
\* still returns success with a container listing every repository's working
\* tree, and no working tree is rolled back: no rollback cleanup is called and
\* every working tree is still on disk.
C22_LinkFailureIsNotFatal ==
    (build.pc = "done" /\ SomeLinkFailed) =>
        /\ build.result = "Ok"
        /\ ContainerListsEveryRepo
        /\ CallsOf("cleanup_worktree") = << >>
        /\ \A p \in CreatedPaths : p \in DOMAIN fs /\ fs[p] = Worktree

C22_Witness ==
    /\ build.pc = "done"
    /\ SomeLinkFailed
    /\ Len(build.repos) >= 2
    /\ build.result = "Ok"
    /\ ContainerListsEveryRepo

\* The orders in which the store may return the project's queue without the task
\* moved, the positions being qp.
QueueWithout(qp, pid, task_id) ==
    LET S == SeqTasks(pid) \ {task_id}
        n == Cardinality(S)
    IN {q \in [1 .. n -> S] :
           /\ \A i, j \in 1 .. n : i /= j => q[i] /= q[j]
           /\ \A i, j \in 1 .. n : i < j => PosLeq(qp[q[i]], qp[q[j]])}

\* new_position clamped into [0, len].
ClampedIndex(new_position, len) ==
    IF new_position < 0 THEN 0 ELSE IF new_position > len THEN len ELSE new_position

\* The last call was a reorder that went on to write positions.
ReorderWrote ==
    /\ last.op = "reorder"
    /\ last.task \in Tasks
    /\ execution_mode[last.task] = "Sequential"
    /\ last.before[last.task] /= Some(last.pos)
    /\ ~(last.before[last.task] = None /\ last.pos = 0)

\* C23: in reorder the insertion index is new_position clamped into [0, len], len
\* being the queue length without the moved task (a negative new_position clamps
\* to 0, one above len to len); tasks before the index get positions 1..index,
\* tasks at or after it get index+2 onward, and the moved task is stored with
\* exactly new_position.
C23_ReorderClampsIndex ==
    ReorderWrote =>
        \E q \in QueueWithout(last.before, last.project, last.task) :
            LET index == ClampedIndex(last.pos, Len(q))
            IN /\ \A i \in 1 .. Len(q) :
                     queue_position[q[i]] = Some(IF i <= index THEN i ELSE i + 1)
               /\ queue_position[last.task] = Some(last.pos)

\* The last call was a reorder of a sequential task to the position it held.
ReorderToOwnPosition ==
    /\ last.op = "reorder"
    /\ last.task \in Tasks
    /\ execution_mode[last.task] = "Sequential"
    /\ last.before[last.task] = Some(last.pos)

\* C24: reorder with new_position equal to the task's current queue_position
\* returns success without writing any task's position.
C24_ReorderToOwnPositionWritesNothing ==
    ReorderToOwnPosition =>
        /\ last.result = Some("Ok")
        /\ queue_position = last.before

\* The call is made on a queue that the renumbering would have changed.
C24_Witness ==
    /\ ReorderToOwnPosition
    /\ last.result = Some("Ok")
    /\ queue_position = last.before
    /\ \E q \in find_sequential_queue_for_project(last.project) :
          ReorderWrites(last.before, q, last.task, last.pos) /= last.before

\* The largest position held by the tasks of S, 0 when none holds one.
LargestPosition(qp, S) ==
    LET held == {qp[u][1] : u \in {v \in S : qp[v] /= None}}
    IN IF held = {} THEN 0 ELSE CHOOSE m \in held : \A x \in held : x <= m

\* The step is an enqueue call that gives the task one past the largest position
\* of its project's sequential tasks and leaves the other tasks' positions alone.
EnqueueGivesMaxPlusOne ==
    LET t == last'.task
        S == SeqTasks(project[t])
    IN /\ queue_position'[t] = Some(LargestPosition(queue_position, S) + 1)
       /\ \A u \in Tasks \ {t} : queue_position'[u] = queue_position[u]

\* The step is an enqueue call after which the task is at N + 1, N being the
\* number of tasks in the queue before it, and the queue is dense.
EnqueueKeepsDense ==
    LET t == last'.task
        pid == project[t]
    IN /\ queue_position'[t] = Some(Cardinality(SeqTasks(pid)) + 1)
       /\ LET after == {u \in Tasks : project'[u] = pid /\ execution_mode'[u] = "Sequential"}
          IN /\ \A u \in after : queue_position'[u] /= None
             /\ {queue_position'[u][1] : u \in after} = 1 .. Cardinality(after)

ReconcileSucceeded ==
    call.op = "ensure_workspace_exists" /\ call.pc = "done" /\ call.result = "Ok"

\* Every repository of the call has a working tree at its sibling path and
\* shared_directory/repo_name is a symlink pointing at it.
EveryRepoReconciled ==
    \A i \in DOMAIN call.repos :
        LET repo == call.repos[i]
            wp == SiblingPath(repo, call.branch_name)
            link == Join(call.workspace_dir, repo.name)
        IN /\ wp \in DOMAIN fs
           /\ fs[wp] = Worktree
           /\ link \in DOMAIN fs
           /\ fs[link] = Symlink(wp)

ReconcileLinksMade ==
    \A k \in DOMAIN call.log : call.log[k].op = "symlink" => call.log[k].ok

\* No two repositories of the call have the same name.
ReconcileDistinctNames ==
    \A i, j \in DOMAIN call.repos : call.repos[i].name = call.repos[j].name => i = j

MoveFailedAt(k) ==
    /\ k \in DOMAIN call.log
    /\ call.log[k].op = "move_worktree"
    /\ ~call.log[k].ok

\* The repositories of the call whose legacy path is p.
ReposAt(p) ==
    {i \in DOMAIN call.repos : Join(call.workspace_dir, call.repos[i].name) = p}

\* After the failed move at k the call removed what was left at the legacy path,
\* called ensure_worktree_exists for the sibling path and, unless that failed,
\* made the symlink call for the legacy path.
WentOnAfterFailedMove(k) ==
    LET old == call.log[k].path
        n == Len(call.log)
    IN /\ k + 2 <= n
       /\ call.log[k + 1].op = "remove_dir_all" /\ call.log[k + 1].path = old
       /\ call.log[k + 2].op = "ensure_worktree_exists"
       /\ \E i \in ReposAt(old) :
             call.log[k + 2].path =
                 compute_worktree_path(call.repos[i].path, call.branch_name)
       /\ call.log[k + 2].ok =>
             \E j \in (k + 3) .. (k + 4) :
                 /\ j <= n
                 /\ call.log[j].op = "symlink" /\ call.log[j].path = old
                 /\ \A h \in (k + 3) .. (j - 1) :
                       call.log[h].op = "remove_dir_all" /\ call.log[h].path = old

\* The calls of op the ensure_workspace_exists call has made, in the order made.
ReconcileCallsOf(op) == SelectSeq(call.log, LAMBDA c : c.op = op)

\* C28: if the move primitive fails while reconcile migrates a legacy working
\* tree, reconcile does not return that error: it goes on for that repository,
\* calls ensure_exists for the sibling path and makes the symlink call for the
\* legacy path, and it goes on to the remaining repositories; the only error it
\* returns after the shared directory is there is a failed ensure_exists.
C28_FailedMoveIsNotFatal ==
    (call.op = "ensure_workspace_exists" /\ \E k \in DOMAIN call.log : MoveFailedAt(k)) =>
        /\ \A k \in DOMAIN call.log : MoveFailedAt(k) => WentOnAfterFailedMove(k)
        /\ call.pc = "done" =>
              LET ensured == ReconcileCallsOf("ensure_worktree_exists")
              IN IF \A j \in DOMAIN ensured : ensured[j].ok
                 THEN /\ call.result = "Ok"
                      /\ Len(ensured) = Len(call.repos)
                      /\ Len(ReconcileCallsOf("symlink")) = Len(call.repos)
                 ELSE /\ call.result = "Worktree"
                      /\ ~call.log[Len(call.log)].ok
                      /\ call.log[Len(call.log)].op = "ensure_worktree_exists"

\* The move of the first repository's legacy working tree failed; the call went
\* on, handled the second repository and returned Ok with the link in place.
C28_Witness ==
    /\ call.op = "ensure_workspace_exists" /\ call.pc = "done" /\ call.run = 1
    /\ call.repos = << RepoA, RepoB >>
    /\ MoveFailedAt(1) \/ MoveFailedAt(2)
    /\ call.result = "Ok"
    /\ Len(ReconcileCallsOf("ensure_worktree_exists")) = 2
    /\ EveryRepoReconciled

\* shared_directory/repo_name of the migrate_legacy_worktree call.
ExpectedPath == Join(call.workspace_dir, call.repo.name)

\* The first migrate_legacy_worktree call has returned; it was made while the
\* shared directory was a legacy working tree and shared_directory/repo_name did
\* not exist.
MigratedLegacy ==
    /\ call.op = "migrate_legacy_worktree"
    /\ call.run = 1
    /\ call.pc = "done"
    /\ is_old_style(call.before, call.workspace_dir, ExpectedPath)

\* The shared directory is a plain directory holding the working tree at
\* shared_directory/repo_name, and nothing is at the temporary path.
NewLayoutInPlace ==
    /\ call.workspace_dir \in DOMAIN fs
    /\ fs[call.workspace_dir] = Dir
    /\ ExpectedPath \in DOMAIN fs
    /\ fs[ExpectedPath] = Worktree
    /\ temp_path(call.workspace_dir) \notin DOMAIN fs

\* The call was repeated at once after a first call made on the legacy layout.
RepeatedAfterLegacy ==
    /\ call.op = "migrate_legacy_worktree"
    /\ call.run = 2
    /\ is_old_style(call.first.before, call.workspace_dir, ExpectedPath)

\* C29 as stated: when shared_directory itself is a legacy working tree and
\* shared_directory/repo_name does not exist, migrate_legacy_single_tree returns
\* true and afterwards shared_directory is a plain directory holding the working
\* tree at shared_directory/repo_name, the temporary sibling path no longer
\* exists, and an immediately repeated call returns false without changing anything.
C29_MigrateLegacyThenNoOp ==
    /\ MigratedLegacy => (call.result = "true" /\ NewLayoutInPlace)
    /\ RepeatedAfterLegacy =>
          /\ call.pc = "done"
          /\ call.result = "false"
          /\ call.log = << >>
          /\ fs = call.before

\* C29 amended: the same whenever the first call returns true, that is, when
\* neither of its two moves nor the creation of the directory fails.
C29_MigrateLegacyThenNoOpWhenTrue ==
    /\ (MigratedLegacy /\ call.result = "true") => NewLayoutInPlace
    /\ (RepeatedAfterLegacy /\ call.first.result = "true") =>
          /\ call.pc = "done"
          /\ call.result = "false"
          /\ call.log = << >>
          /\ fs = call.before
          /\ NewLayoutInPlace

\* The legacy working tree held a file; the first call returned true and the
\* repeated call returned false.
C29_Witness ==
    /\ RepeatedAfterLegacy
    /\ call.first.result = "true"
    /\ Join(call.workspace_dir, Str("m")) \in DOMAIN call.first.before
    /\ call.pc = "done"
    /\ call.result = "false"
    /\ fs = call.before
    /\ NewLayoutInPlace

\* Some call the sweep made for the k-th entry of the base directory failed, or
\* the entry itself came as an error.
EntryFailed(k) ==
    \/ k \in call.unreadable
    \/ \E h \in DOMAIN call.log :
          ~call.log[h].ok /\ IsPrefix(call.entries[k], call.log[h].path)

\* The sweep examined the k-th entry and, having found it a directory without a
\* record, cleaned up the directories in it that it could read and called for its
\* removal; the directory is gone unless that call failed.
EntryHandled(k) ==
    /\ k \in DOMAIN call.answers
    /\ call.answers[k] = "false" =>
          /\ CleanedUp(k)
          /\ Called("remove_dir_all", call.entries[k], TRUE) =>
                call.entries[k] \notin DOMAIN fs

\* C30: a failure while the sweep handles one entry of the base directory (an
\* unreadable entry, a failed suspected-working-tree cleanup, a failed directory
\* removal) does not stop the sweep: every other immediate subdirectory is still
\* examined and, if it has no record, cleaned up and removed.
C30_SweepGoesOnAfterFailure ==
    Swept =>
        /\ Len(call.answers) = Len(call.entries)
        /\ \A k \in DOMAIN call.entries :
              (\E j \in DOMAIN call.entries : j /= k /\ EntryFailed(j)) => EntryHandled(k)

\* The removal of the first entry failed; the second entry, a directory without a
\* record, was examined after it and removed.
C30_Witness ==
    /\ Swept
    /\ Len(call.entries) >= 2
    /\ call.answers[1] = "false"
    /\ Called("remove_dir_all", call.entries[1], FALSE)
    /\ call.answers[2] = "false"
    /\ Called("remove_dir_all", call.entries[2], TRUE)
    /\ call.entries[2] \notin DOMAIN fs

\* C31: a sweep never cleans up or removes a subdirectory of the base directory
\* for which the record-existence query returned true: every step that changes
\* the disk is the cleanup of an entry whose query answered false, and it leaves
\* every path outside that entry as it was.
C31_SweepSparesOwnedDirectories ==
    [][(call.op = "cleanup_orphan_workspaces" /\ fs' /= fs) =>
          /\ call.pc = "cleanup"
          /\ call.answers[call.i] = "false"
          /\ \A p \in DOMAIN fs \cup DOMAIN fs' :
                ~IsPrefix(call.entries[call.i], p) =>
                    (p \in DOMAIN fs /\ p \in DOMAIN fs' /\ fs'[p] = fs[p])]_vars

\* The sweep found one directory with a record and one without: the first is
\* still there with what it held, the second is gone.
C31_Witness ==
    /\ Swept
    /\ \E k \in DOMAIN call.answers :
          /\ call.answers[k] = "true"
          /\ call.entries[k] = WorkspaceDir
          /\ WorkspaceDir \in DOMAIN fs
          /\ Join(WorkspaceDir, RepoA.name) \in DOMAIN fs
          /\ Join(WorkspaceDir, Str("m")) \in DOMAIN fs
    /\ \E j \in DOMAIN call.answers :
          /\ call.answers[j] = "false"
          /\ call.entries[j] \notin DOMAIN fs

\* The step is the sweep's cleanup of the entry it asked about.
SweepCleansEntry == call.pc = "cleanup" /\ call'.i /= call.i

\* C32: the core holds no lease or lock between the sweep's record-existence
\* query and its removal of the directory: once the query has answered false the
\* sweep's cleanup step calls for the removal of the directory whatever a build of
\* the same path is doing and whether or not a record has become visible since
\* (the witness being the state in which build has returned success and the sweep
\* has removed its shared directory).
C32_NoLeaseBetweenQueryAndRemoval ==
    [][SweepCleansEntry =>
          \E k \in DOMAIN call'.log :
              /\ k > Len(call.log)
              /\ call'.log[k].op = "remove_dir_all"
              /\ call'.log[k].path = call.entries[call.i]]_vars

\* The build has returned success and its record is visible, but the sweep, which
\* had asked before, has removed its shared directory.
C32_Witness ==
    /\ BuildSucceeded
    /\ build.workspace_dir \in call.owned
    /\ Swept
    /\ \E k \in DOMAIN call.answers :
          call.answers[k] = "false" /\ call.entries[k] = build.workspace_dir
    /\ Called("remove_dir_all", build.workspace_dir, TRUE)
    /\ build.workspace_dir \notin DOMAIN fs

\* cleanup_workspace has returned for the arguments of a build that succeeded for a
\* non-empty repository list.
DestroyedAfterBuild ==
    /\ BuildSucceeded
    /\ build.repos /= << >>
    /\ Destroyed
    /\ call.workspace_dir = build.workspace_dir
    /\ call.repos = build.repos
    /\ call.branch_name = build.branch_name

\* No sibling working tree of any repository of the call and no shared directory
\* is on disk.
NothingRemains ==
    /\ \A i \in DOMAIN call.repos :
          SiblingPath(call.repos[i], call.branch_name) \notin DOMAIN fs
    /\ \A p \in DOMAIN fs : ~IsPrefix(call.workspace_dir, p)

TreesCreatedBefore(k) ==
    Cardinality({j \in 1 .. k - 1 :
                    build.log[j].op = "create_worktree" /\ build.log[j].ok})

\* C34: build creates no symlink in the shared directory until working trees for
\* all repositories have been created, so whenever build fails with
\* PartialCreation it has made no symlink call.
C34_NoSymlinkBeforeAllTrees ==
    /\ \A k \in DOMAIN build.log :
          build.log[k].op = "symlink" => TreesCreatedBefore(k) = Len(build.repos)
    /\ BuildFailed => \A k \in DOMAIN build.log : build.log[k].op /= "symlink"

\* A build failed with PartialCreation after it had created a working tree, and
\* made no symlink call.
C34_Witness ==
    /\ BuildFailed
    /\ build.created_worktrees /= << >>
    /\ \A k \in DOMAIN build.log : build.log[k].op /= "symlink"

\* The step is one of a build that has not begun to link: the creation of the
\* shared directory, the creation or rollback of a working tree, the removal of
\* the shared directory.
StepBeforeLinking ==
    build.pc \in {"mkdir", "create", "rollback", "rmdir"} /\ build' /= build

\* What is below the shared directory of the call before the step is there,
\* unchanged, after it.
EntriesKept ==
    \A p \in DOMAIN fs :
        (IsPrefix(build.workspace_dir, p) /\ p /= build.workspace_dir) =>
            (p \in DOMAIN fs' /\ fs'[p] = fs[p])

\* C35: build's rollback removes the shared directory only when it is empty
\* (non-recursive removal): no step of a build that fails deletes an entry that
\* was in the shared directory, and whether or not the removal of the directory
\* succeeds the call returns PartialCreation for the repository that failed.
C35_RollbackRemovesOnlyEmptyDir ==
    [][StepBeforeLinking =>
          /\ EntriesKept
          /\ build.pc = "rmdir" =>
                /\ build'.pc = "done"
                /\ build'.result = "PartialCreation"
                /\ build'.failed = build.failed
                /\ build.workspace_dir \notin DOMAIN fs' =>
                      Children(fs, build.workspace_dir) = {}]_vars

\* A build failed with PartialCreation; its shared directory, which held a file
\* before, could not be removed and still holds the file.
C35_Witness ==
    /\ BuildFailed
    /\ CallFailed("remove_dir", build.workspace_dir)
    /\ Join(build.workspace_dir, Str("m")) \in DOMAIN fs
    /\ fs[Join(build.workspace_dir, Str("m"))] = File

\* The step is an iteration of reconcile in which ensure_worktree_exists failed.
EnsureFailedInStep ==
    /\ call.op = "ensure_workspace_exists"
    /\ call.pc = "repo"
    /\ \E k \in Len(call.log) + 1 .. Len(call'.log) :
          call'.log[k].op = "ensure_worktree_exists" /\ ~call'.log[k].ok

\* The step leaves what is at the path p as it was.
KeptAt(p) ==
    /\ p \in DOMAIN fs <=> p \in DOMAIN fs'
    /\ p \in DOMAIN fs => fs'[p] = fs[p]

\* C36: if ensure_exists fails for a repository during reconcile, reconcile returns
\* that error immediately: the failed call is the last call it makes (repositories
\* later in the list are not processed, the failing repository's legacy path is not
\* turned into a symlink), while the working trees and symlinks of the earlier
\* repositories remain in place.
C36_EnsureFailureEndsReconcile ==
    [][EnsureFailedInStep =>
          /\ call'.pc = "done"
          /\ call'.result = "Worktree"
          /\ call'.log[Len(call'.log)].op = "ensure_worktree_exists"
          /\ LET old_worktree_path == Join(call.workspace_dir, call.repos[call.i].name)
             IN ~is_symlink(fs, old_worktree_path) => ~is_symlink(fs', old_worktree_path)
          /\ \A j \in 1 .. call.i - 1 :
                /\ KeptAt(SiblingPath(call.repos[j], call.branch_name))
                /\ is_symlink(fs, Join(call.workspace_dir, call.repos[j].name)) =>
                      KeptAt(Join(call.workspace_dir, call.repos[j].name))]_vars

\* Reconcile of two repositories returned the error of the second one's
\* ensure_exists; the first one's working tree and symlink are in place and the
\* second one's path in the shared directory is no symlink.
C36_Witness ==
    /\ call.op = "ensure_workspace_exists"
    /\ call.pc = "done"
    /\ call.run = 1
    /\ call.result = "Worktree"
    /\ Len(call.repos) = 2
    /\ call.i = 3
    /\ SiblingPath(call.repos[1], call.branch_name) \in DOMAIN fs
    /\ is_symlink(fs, Join(call.workspace_dir, call.repos[1].name))
    /\ ~is_symlink(fs, Join(call.workspace_dir, call.repos[2].name))
    /\ call.log[Len(call.log)].op = "ensure_worktree_exists"

\* The step is an iteration of reconcile in which the migration move failed.
MoveFailedInStep ==
    /\ call.op = "ensure_workspace_exists"
    /\ call.pc = "repo"
    /\ \E k \in Len(call.log) + 1 .. Len(call'.log) :
          call'.log[k].op = "move_worktree" /\ ~call'.log[k].ok

\* The step made the call of op on path with the outcome ok.
CalledInStep(op, path, ok) ==
    \E k \in Len(call.log) + 1 .. Len(call'.log) : call'.log[k] = Call(op, path, ok)

\* After the step the path holds a symlink and no working tree is at it.
OnlySymlinkAfter(p) == p \in DOMAIN fs' /\ fs'[p].kind = "symlink"

FailedAfterFirstMove ==
    /\ call.op = "migrate_legacy_worktree"
    /\ call.run = 1
    /\ call.pc = "done"
    /\ call.result \in {"Io", "Worktree"}
    /\ call.log /= << >>
    /\ call.log[1] = Call("move_worktree", call.workspace_dir, TRUE)

\* On the disk f the working tree is at the temporary path and not at
\* shared_directory/repo_name.
TreeLeftAtTemp(f) ==
    /\ temp_path(call.workspace_dir) \in DOMAIN f
    /\ f[temp_path(call.workspace_dir)].kind = "worktree"
    /\ ~(ExpectedPath \in DOMAIN f /\ f[ExpectedPath].kind = "worktree")

\* C38: if migrate_legacy_single_tree fails after its first move succeeded (the
\* creation of shared_directory or the second move fails), it returns the error
\* with the working tree left at the temporary sibling path, and the next call
\* with the same arguments returns false and changes nothing.
C38_FailedMigrationIsNotResumed ==
    [][(FailedAfterFirstMove /\ call' /= call) =>
          /\ TreeLeftAtTemp(fs)
          /\ call'.run = 2
          /\ call'.pc = "done"
          /\ call'.result = "false"
          /\ fs' = fs]_vars

\* The second move failed in the first call, and the second call returned false:
\* shared_directory is a plain directory and the working tree is at the temporary
\* path.
C38_Witness ==
    /\ call.op = "migrate_legacy_worktree"
    /\ call.run = 2
    /\ call.pc = "done"
    /\ call.result = "false"
    /\ call.first.result = "Worktree"
    /\ call.first.before[call.workspace_dir] = Worktree
    /\ fs[call.workspace_dir] = Dir
    /\ TreeLeftAtTemp(fs)

\* The positions one reorder call, run alone on the positions qp, may leave.
ReorderAlone(qp, pid, task_id, new_position) ==
    IF execution_mode[task_id] /= "Sequential"
    THEN {qp}
    ELSE IF (IF qp[task_id] = None THEN 0 ELSE qp[task_id][1]) = new_position
    THEN {qp}
    ELSE {ReorderWrites(qp, q, task_id, new_position) : q \in QueueWithout(qp, pid, task_id)}

\* The positions the calls a and b may leave when a runs to its end before b begins.
ReorderInSeries(qp, a, b) ==
    UNION {ReorderAlone(m, b.project_id, b.task_id, b.new_position) :
              m \in ReorderAlone(qp, a.project_id, a.task_id, a.new_position)}

\* Both reorder calls have returned.
BothReordersDone ==
    call.op = "reorder" /\ \A c \in ReorderCalls : call.of[c].pc = "done"

\* The positions are those of the two calls run one after the other, in one of
\* the two orders.
Serializable ==
    queue_position \in ReorderInSeries(call.before, call.of[1], call.of[2])
                          \cup ReorderInSeries(call.before, call.of[2], call.of[1])

\* C39: under every interleaving of two concurrent reorder calls on the same
\* project the final queue positions are dense and duplicate-free and equal the
\* result of running the two calls in some serial order.
C39_ConcurrentReordersSerializable ==
    BothReordersDone => (DensePositions("P1") /\ Serializable)

\* The step is an advance call for a task that passes the checks of advance, made
\* while the task the advance call before it returned is still Todo in the same
\* project.
AdvanceBeforeStart ==
    /\ last.op = "advance"
    /\ last.result /= None
    /\ status[last.result[1]] = "Todo"
    /\ last'.op = "advance"
    /\ UNCHANGED << project, status, execution_mode, queue_position >>
    /\ project[last'.task] = project[last.task]
    /\ execution_mode[last'.task] = "Sequential"
    /\ status[last'.task] \in {"Done", "Cancelled", "InReview"}
    /\ \A t \in SeqTasks(project[last'.task]) : status[t] /= "InProgress"

====
